---------------------------- MODULE Spec2Model ----------------------------
(***************************************************************************)
(* Model of the Lead Gear SEO strategist (src/seo_strategist.py).          *)
(*                                                                         *)
(* Numbers.  The program computes with Python floats holding decimal       *)
(* fractions.  The model computes the same quantities exactly, as scaled   *)
(* integers:                                                               *)
(*   - estimated hours of an issue or task: hundredths of an hour (ch),    *)
(*     e.g. 3 * 0.17 = 0.51 h is 51;                                       *)
(*   - monthly hour figures inside _calculate_dynamic_hours: 1/1200 of an  *)
(*     hour (u), so that sum / 2 and sum / 12 are exact: 1 ch = 12 u;      *)
(*   - values returned by round(x, 1): tenths of an hour;                  *)
(*   - values returned by round(x, 2): cents.                              *)
(* round() is round-half-to-even on the exact value, and int() is the      *)
(* floor of the exact value.  The floats of the program differ from that   *)
(* in two places only: where the exact value is a tie between two rounded  *)
(* values, round() of the float may go either way; and where the exact     *)
(* value hours * 60 is a whole number, int() of the float product may be   *)
(* one less (int(3 * 0.35 * 60) is 62).                                    *)
(***************************************************************************)
EXTENDS Integers, Sequences, FiniteSets, TLC

VARIABLES
    pc,                \* position of the run
    args,              \* the arguments of the run: url and tier (or "None")
    onpage_results,    \* the response returned by run_onpage_audit
    tier,              \* tier key the plan is built for
    audit_results,     \* the audit summary (result of _parse_audit_results)
    recommended_tier,  \* result of _recommend_tier_from_audit
    specific_tasks,    \* the five task buckets
    hour_allocation,   \* result of _calculate_dynamic_hours
    plan,              \* the plan returned by generate_data_driven_plan
    current_date,      \* datetime.now() of the run
    csv_rows,          \* rows collected by export_clickup_csv
    strategist,        \* the EnhancedSEOStrategist object (self)
    first_plan,        \* the plan an earlier call on the same object returned
    error,             \* the exception that left the last call, if any
    post_response,     \* run_onpage_audit: the response to the task post
    api_calls,         \* number of requests sent with urlopen
    log,               \* the lines printed about the audit API
    inputs,            \* the answers collected by the interactive front-end
    exit_status,       \* exit status of the planner process
    monthly_plan,      \* result of _create_data_driven_monthly_plan
    files              \* the files written, in order: [name, kind, content]

vars == <<pc, args, onpage_results, tier, audit_results, recommended_tier, specific_tasks,
          hour_allocation, plan, current_date, csv_rows, strategist, first_plan,
          error, post_response, api_calls, log, inputs, exit_status, monthly_plan,
          files>>

-----------------------------------------------------------------------------
(* Bounds of the model *)

MaxTotalIssues == 30     \* largest total_issues of an audit summary
MaxCritical == 10        \* largest critical count of an audit summary
MaxFixHours == 50        \* largest estimated_fix_hours (whole hours)

-----------------------------------------------------------------------------
(* Arithmetic helpers *)

Min(a, b) == IF a < b THEN a ELSE b

Max(a, b) == IF a > b THEN a ELSE b

\* round(n / d) to the nearest integer, ties to the even one (n >= 0, d > 0)
RoundHalfEven(n, d) ==
    LET q == n \div d
        r == n % d
    IN  IF 2 * r < d THEN q
        ELSE IF 2 * r > d THEN q + 1
        ELSE IF q % 2 = 0 THEN q ELSE q + 1

-----------------------------------------------------------------------------
(* Tier catalog: EnhancedSEOStrategist.__init__ *)

TierKeys == {"starter", "business", "pro"}

service_tiers ==
    [starter  |-> [name |-> "Starter", monthly_investment |-> "$899/month",
                   best_for |-> "Small businesses, local services, getting SEO foundation",
                   base_monthly_hours |-> 20, max_monthly_hours |-> 25,
                   hourly_rate |-> 45],
     business |-> [name |-> "Business", monthly_investment |-> "$1,399/month",
                   best_for |-> "Growing businesses ready to scale, competitive markets",
                   base_monthly_hours |-> 35, max_monthly_hours |-> 45,
                   hourly_rate |-> 40],
     pro      |-> [name |-> "Pro", monthly_investment |-> "$1,999/month",
                   best_for |-> "Established businesses wanting hands-off growth",
                   base_monthly_hours |-> 50, max_monthly_hours |-> 65,
                   hourly_rate |-> 40]]

-----------------------------------------------------------------------------
(* Values a variable holds before the operation that sets it has run *)

NoTasks ==
    [immediate_fixes |-> <<>>, short_term |-> <<>>, medium_term |-> <<>>,
     long_term |-> <<>>, ongoing |-> <<>>]

NoAllocation ==
    [base_monthly_hours |-> 0, monthly_total_hours |-> 0,
     additional_hours |-> 0, additional_monthly_cost |-> 0,
     annual_hours |-> 0,
     breakdown |-> [immediate_fixes_monthly |-> 0, ongoing_tasks |-> 0,
                    additional_projects |-> 0]]

NoAudit == [error |-> "none", total_issues |-> 0]

NoPlan ==
    [client_info |-> [url |-> "", tier |-> "", monthly_investment |-> "",
                      base_monthly_hours |-> 0, actual_monthly_hours |-> 0],
     audit_based_tasks |-> NoTasks,
     hour_allocation |-> NoAllocation]

NoDate == [year |-> 1, month |-> 1, day |-> 1]

NoArgs == [url |-> "", tier |-> "None"]

NoResponse == [status_code |-> 0]

NoError == [type |-> "None", message |-> ""]

NoInputs == [business_size |-> "", competition |-> "", budget |-> "", goals |-> ""]

NoMonthlyPlan == [month_0 |-> [focus |-> "", primary_tasks |-> <<>>, task_count |-> 0]]

-----------------------------------------------------------------------------
(* The objects: DataForSEOClient.__init__ and EnhancedSEOStrategist.__init__. *)
(* A credential or environment variable that is None or empty is "".       *)

NoEnviron == [DATAFORSEO_USERNAME |-> "", DATAFORSEO_PASSWORD |-> ""]

\* a or b, for strings
Or(a, b) == IF a # "" THEN a ELSE b

DataForSEOClient(username, password, environ) ==
    LET self_username == Or(username, environ["DATAFORSEO_USERNAME"])
        self_password == Or(password, environ["DATAFORSEO_PASSWORD"])
    IN  [username |-> self_username, password |-> self_password,
         demo_mode |-> (self_username = "" \/ self_password = "")]

EnhancedSEOStrategist(now, dataforseo_username, dataforseo_password, environ) ==
    [current_date |-> now,
     dataforseo |-> DataForSEOClient(dataforseo_username, dataforseo_password,
                                     environ),
     service_tiers |-> service_tiers]

-----------------------------------------------------------------------------
(* dict.get(key, default) on a record *)

Get(r, key, default) == IF key \in DOMAIN r THEN r[key] ELSE default

\* an empty dict
EmptyDict == [none |-> 0]

-----------------------------------------------------------------------------
(* _recommend_tier_from_audit: hours are in hundredths (15 h = 1500) *)

recommend_tier_from_audit_strict(audit_summary) ==
    LET total_issues == Get(audit_summary, "total_issues", 0)
        critical_count ==
            Get(Get(audit_summary, "severity_breakdown", [none |-> 0]),
                "critical", 0)
        estimated_hours == Get(audit_summary, "estimated_fix_hours", 0)
    IN  IF total_issues <= 10 /\ critical_count <= 3 /\ estimated_hours <= 1500
        THEN "starter"
        ELSE IF total_issues <= 25 /\ critical_count <= 8
                /\ estimated_hours <= 4000
        THEN "business"
        ELSE "pro"

recommend_tier_from_audit(audit_summary) ==
    LET total_issues == Get(audit_summary, "total_issues", 0)
        critical_count ==
            Get(Get(audit_summary, "severity_breakdown", [none |-> 0]),
                "critical", 0)
        estimated_hours == Get(audit_summary, "estimated_fix_hours", 0)
    IN  IF total_issues < 10 /\ critical_count < 3 /\ estimated_hours < 1500
        THEN "starter"
        ELSE IF total_issues < 25 /\ critical_count < 8
                /\ estimated_hours < 4000
        THEN "business"
        ELSE "pro"

-----------------------------------------------------------------------------
(* Specification SpecTier: _recommend_tier_from_audit applied to every     *)
(* audit summary within the bounds, and to the summary of a failed audit.  *)

AuditSummaries ==
    { [total_issues |-> t,
       severity_breakdown |-> [critical |-> c],
       estimated_fix_hours |-> 100 * h] :
         t \in 0..MaxTotalIssues, c \in 0..MaxCritical, h \in 0..MaxFixHours }
    \cup { [error |-> "Audit failed", total_issues |-> 0] }

InitTier ==
    /\ pc = "summary"
    /\ audit_results \in AuditSummaries
    /\ tier = "none"
    /\ recommended_tier = "none"
    /\ specific_tasks = NoTasks
    /\ hour_allocation = NoAllocation
    /\ plan = NoPlan
    /\ args = NoArgs
    /\ onpage_results = NoResponse
    /\ current_date = NoDate
    /\ csv_rows = <<>>
    /\ strategist = EnhancedSEOStrategist(NoDate, "", "", NoEnviron)
    /\ first_plan = NoPlan
    /\ error = NoError
    /\ post_response = NoResponse
    /\ api_calls = 0
    /\ log = <<>>
    /\ inputs = NoInputs
    /\ exit_status = "None"
    /\ monthly_plan = NoMonthlyPlan
    /\ files = <<>>

RecommendTier ==
    /\ pc = "summary"
    /\ recommended_tier' = recommend_tier_from_audit(audit_results)
    /\ pc' = "recommended"
    /\ UNCHANGED <<args, onpage_results, strategist, first_plan, error, post_response, api_calls,
                   log, inputs, exit_status, monthly_plan, files>>
    /\ UNCHANGED <<tier, audit_results, specific_tasks, hour_allocation,
                   plan, current_date, csv_rows>>

NextTier == RecommendTier

SpecTier == InitTier /\ [][NextTier]_vars

\* C1: the recommended tier is starter exactly when total_issues < 10 and
\* critical < 3 and estimated_fix_hours < 15; otherwise business exactly when
\* total_issues < 25 and critical < 8 and estimated_fix_hours < 40; otherwise
\* pro.  (5, 1, 8) gives starter, (30, 10, 50) gives pro.
C1_TierFromAudit ==
    pc = "recommended" /\ "severity_breakdown" \in DOMAIN audit_results =>
        LET t == audit_results.total_issues
            c == audit_results.severity_breakdown.critical
            h == audit_results.estimated_fix_hours
            low == t < 10 /\ c < 3 /\ h < 15 * 100
            mid == t < 25 /\ c < 8 /\ h < 40 * 100
        IN  /\ recommended_tier \in TierKeys
            /\ (recommended_tier = "starter") <=> low
            /\ (recommended_tier = "business") <=> (~low /\ mid)
            /\ (recommended_tier = "pro") <=> (~low /\ ~mid)
            /\ (t = 5 /\ c = 1 /\ h = 800) => recommended_tier = "starter"
            /\ (t = 30 /\ c = 10 /\ h = 5000) => recommended_tier = "pro"

\* a single failing condition (critical = 3) escalates (5, 3, 8) to business
C1_Witness ==
    /\ pc = "recommended"
    /\ "severity_breakdown" \in DOMAIN audit_results
    /\ audit_results.total_issues = 5
    /\ audit_results.severity_breakdown.critical = 3
    /\ audit_results.estimated_fix_hours = 800
    /\ recommended_tier = "business"

-----------------------------------------------------------------------------
(* _calculate_dynamic_hours *)

\* sum(task.get('estimated_hours', 0) for task in tasks), in hundredths
RECURSIVE SumHours(_)
SumHours(tasks) ==
    IF tasks = <<>> THEN 0
    ELSE Get(Head(tasks), "estimated_hours", 0) + SumHours(Tail(tasks))

\* the same sum over the tasks whose frequency is monthly
RECURSIVE SumMonthlyHours_all(_)
SumMonthlyHours_all(tasks) ==
    IF tasks = <<>> THEN 0
    ELSE Get(Head(tasks), "estimated_hours", 0)
            + SumMonthlyHours_all(Tail(tasks))

RECURSIVE SumMonthlyHours(_)
SumMonthlyHours(tasks) ==
    IF tasks = <<>> THEN 0
    ELSE (IF Get(Head(tasks), "frequency", "None") = "monthly"
          THEN Get(Head(tasks), "estimated_hours", 0) ELSE 0)
            + SumMonthlyHours(Tail(tasks))

\* U: units (1/1200 h) per hour; one hundredth of an hour is 12 units
UnitsPerHour == 1200

\* the record returned for the unrounded figures (all in units of 1/1200 h,
\* additional_cost in 1/1200 dollar)
AllocationOf(base_hours, immediate_monthly, ongoing_hours, additional_task_hours, actual_monthly_hours, additional_hours, additional_cost) ==
    [base_monthly_hours |-> base_hours,
     monthly_total_hours |-> RoundHalfEven(actual_monthly_hours, 120),
     additional_hours |-> RoundHalfEven(additional_hours, 120),
     additional_monthly_cost |-> RoundHalfEven(additional_cost, 12),
     annual_hours |-> RoundHalfEven(actual_monthly_hours * 12, 120),
     breakdown |->
        [immediate_fixes_monthly |-> RoundHalfEven(immediate_monthly, 120),
         ongoing_tasks |-> RoundHalfEven(ongoing_hours, 120),
         additional_projects |-> RoundHalfEven(additional_task_hours, 120)]]

\* mutant: the total is not capped at max_monthly_hours
calculate_dynamic_hours_nocap(tasks, tier_config) ==
    LET base_hours == tier_config["base_monthly_hours"]
        immediate_monthly == (SumHours(Get(tasks, "immediate_fixes", <<>>)) * 12) \div 2
        ongoing_hours == SumMonthlyHours(Get(tasks, "ongoing", <<>>)) * 12
        additional_task_hours ==
            SumHours(Get(tasks, "short_term", <<>>))
            + SumHours(Get(tasks, "medium_term", <<>>))
            + SumHours(Get(tasks, "long_term", <<>>))
        actual_monthly_hours ==
            ongoing_hours + additional_task_hours + immediate_monthly
        additional_hours ==
            Max(0, actual_monthly_hours - base_hours * UnitsPerHour)
        additional_cost ==
            additional_hours * Get(tier_config, "hourly_rate", 50)
    IN  AllocationOf(base_hours, immediate_monthly, ongoing_hours,
                     additional_task_hours, actual_monthly_hours,
                     additional_hours, additional_cost)

\* mutant: the cost is computed from the rounded additional hours
calculate_dynamic_hours_roundedcost(tasks, tier_config) ==
    LET base_hours == tier_config["base_monthly_hours"]
        max_hours == tier_config["max_monthly_hours"]
        immediate_monthly == (SumHours(Get(tasks, "immediate_fixes", <<>>)) * 12) \div 2
        ongoing_hours == SumMonthlyHours(Get(tasks, "ongoing", <<>>)) * 12
        additional_task_hours ==
            SumHours(Get(tasks, "short_term", <<>>))
            + SumHours(Get(tasks, "medium_term", <<>>))
            + SumHours(Get(tasks, "long_term", <<>>))
        total_monthly ==
            ongoing_hours + additional_task_hours + immediate_monthly
        actual_monthly_hours == Min(total_monthly, max_hours * UnitsPerHour)
        additional_hours ==
            Max(0, actual_monthly_hours - base_hours * UnitsPerHour)
        additional_cost ==
            RoundHalfEven(additional_hours, 120) * 120
                * Get(tier_config, "hourly_rate", 50)
    IN  AllocationOf(base_hours, immediate_monthly, ongoing_hours,
                     additional_task_hours, actual_monthly_hours,
                     additional_hours, additional_cost)

\* mutant: every ongoing task counts, whatever its frequency
calculate_dynamic_hours_allfreq(tasks, tier_config) ==
    LET base_hours == tier_config["base_monthly_hours"]
        max_hours == tier_config["max_monthly_hours"]
        immediate_monthly == (SumHours(Get(tasks, "immediate_fixes", <<>>)) * 12) \div 2
        ongoing_hours == SumMonthlyHours_all(Get(tasks, "ongoing", <<>>)) * 12
        additional_task_hours ==
            SumHours(Get(tasks, "short_term", <<>>))
            + SumHours(Get(tasks, "medium_term", <<>>))
            + SumHours(Get(tasks, "long_term", <<>>))
        total_monthly ==
            ongoing_hours + additional_task_hours + immediate_monthly
        actual_monthly_hours == Min(total_monthly, max_hours * UnitsPerHour)
        additional_hours ==
            Max(0, actual_monthly_hours - base_hours * UnitsPerHour)
        additional_cost ==
            additional_hours * Get(tier_config, "hourly_rate", 50)
    IN  AllocationOf(base_hours, immediate_monthly, ongoing_hours,
                     additional_task_hours, actual_monthly_hours,
                     additional_hours, additional_cost)

\* mutant: the breakdown reports the components after capping each of them
calculate_dynamic_hours_cappedbreakdown(tasks, tier_config) ==
    LET base_hours == tier_config["base_monthly_hours"]
        max_hours == tier_config["max_monthly_hours"]
        immediate_monthly == (SumHours(Get(tasks, "immediate_fixes", <<>>)) * 12) \div 2
        ongoing_hours == SumMonthlyHours(Get(tasks, "ongoing", <<>>)) * 12
        additional_task_hours ==
            SumHours(Get(tasks, "short_term", <<>>))
            + SumHours(Get(tasks, "medium_term", <<>>))
            + SumHours(Get(tasks, "long_term", <<>>))
        total_monthly ==
            ongoing_hours + additional_task_hours + immediate_monthly
        actual_monthly_hours == Min(total_monthly, max_hours * UnitsPerHour)
        additional_hours ==
            Max(0, actual_monthly_hours - base_hours * UnitsPerHour)
        additional_cost ==
            additional_hours * Get(tier_config, "hourly_rate", 50)
    IN  AllocationOf(base_hours,
                     Min(immediate_monthly, max_hours * UnitsPerHour),
                     Min(ongoing_hours, max_hours * UnitsPerHour),
                     Min(additional_task_hours, max_hours * UnitsPerHour),
                     actual_monthly_hours, additional_hours, additional_cost)

calculate_dynamic_hours(tasks, tier_config) ==
    LET base_hours == tier_config["base_monthly_hours"]
        max_hours == tier_config["max_monthly_hours"]
        \* immediate fix hours, spread over the first 2 months
        immediate_monthly == (SumHours(Get(tasks, "immediate_fixes", <<>>)) * 12) \div 2
        \* ongoing monthly hours
        ongoing_hours == SumMonthlyHours(Get(tasks, "ongoing", <<>>)) * 12
        \* short/medium/long term hours, spread across 12 months
        additional_task_hours ==
            SumHours(Get(tasks, "short_term", <<>>))
            + SumHours(Get(tasks, "medium_term", <<>>))
            + SumHours(Get(tasks, "long_term", <<>>))
        total_monthly ==
            ongoing_hours + additional_task_hours + immediate_monthly
        \* cap at max hours for tier
        actual_monthly_hours == Min(total_monthly, max_hours * UnitsPerHour)
        additional_hours ==
            Max(0, actual_monthly_hours - base_hours * UnitsPerHour)
        additional_cost ==
            additional_hours * Get(tier_config, "hourly_rate", 50)
    IN  AllocationOf(base_hours, immediate_monthly, ongoing_hours,
                     additional_task_hours, actual_monthly_hours,
                     additional_hours, additional_cost)

-----------------------------------------------------------------------------
(* Specification SpecHours: _calculate_dynamic_hours applied to task       *)
(* buckets of up to MaxTasks tasks in all, for each tier.  The buckets     *)
(* are built one task at a time before the call.                           *)

MaxTasks == 3

\* estimated_hours of the tasks of the buckets, in hundredths of an hour
HourChoices == {51, 1050, 4703, 9000}

Frequencies == {"monthly", "quarterly", "bi-annually"}

ProjectBuckets == {"immediate_fixes", "short_term", "medium_term", "long_term"}

BucketNames ==
    {"immediate_fixes", "short_term", "medium_term", "long_term", "ongoing"}

TaskCount(tasks) ==
    Len(tasks.immediate_fixes) + Len(tasks.short_term)
    + Len(tasks.medium_term) + Len(tasks.long_term) + Len(tasks.ongoing)

InitHours ==
    /\ pc = "buckets"
    /\ tier \in TierKeys
    /\ audit_results = NoAudit
    /\ recommended_tier = "none"
    /\ specific_tasks = NoTasks
    /\ hour_allocation = NoAllocation
    /\ plan = NoPlan
    /\ args = NoArgs
    /\ onpage_results = NoResponse
    /\ current_date = NoDate
    /\ csv_rows = <<>>
    /\ strategist = EnhancedSEOStrategist(NoDate, "", "", NoEnviron)
    /\ first_plan = NoPlan
    /\ error = NoError
    /\ post_response = NoResponse
    /\ api_calls = 0
    /\ log = <<>>
    /\ inputs = NoInputs
    /\ exit_status = "None"
    /\ monthly_plan = NoMonthlyPlan
    /\ files = <<>>

\* the caller puts one more task into one of the four project buckets
AddProjectTask ==
    /\ pc = "buckets"
    /\ TaskCount(specific_tasks) < MaxTasks
    /\ \E b \in ProjectBuckets, h \in HourChoices :
          specific_tasks' =
             [specific_tasks EXCEPT
                ![b] = Append(@, [estimated_hours |-> h, recurring |-> FALSE])]
    /\ UNCHANGED <<args, onpage_results, strategist, first_plan, error, post_response, api_calls,
                   log, inputs, exit_status, monthly_plan, files>>
    /\ UNCHANGED <<pc, tier, audit_results, recommended_tier,
                   hour_allocation, plan, current_date, csv_rows>>

\* the caller puts one more recurring task into the ongoing bucket
AddOngoingTask ==
    /\ pc = "buckets"
    /\ TaskCount(specific_tasks) < MaxTasks
    /\ \E h \in HourChoices, f \in Frequencies :
          specific_tasks' =
             [specific_tasks EXCEPT
                !.ongoing = Append(@, [estimated_hours |-> h,
                                       frequency |-> f, recurring |-> TRUE])]
    /\ UNCHANGED <<args, onpage_results, strategist, first_plan, error, post_response, api_calls,
                   log, inputs, exit_status, monthly_plan, files>>
    /\ UNCHANGED <<pc, tier, audit_results, recommended_tier,
                   hour_allocation, plan, current_date, csv_rows>>

CalculateDynamicHours ==
    /\ pc = "buckets"
    /\ hour_allocation' =
          calculate_dynamic_hours(specific_tasks, service_tiers[tier])
    /\ pc' = "allocated"
    /\ UNCHANGED <<args, onpage_results, strategist, first_plan, error, post_response, api_calls,
                   log, inputs, exit_status, monthly_plan, files>>
    /\ UNCHANGED <<tier, audit_results, recommended_tier, specific_tasks,
                   plan, current_date, csv_rows>>

NextHours == AddProjectTask \/ AddOngoingTask \/ CalculateDynamicHours

SpecHours == InitHours /\ [][NextHours]_vars

\* The figures of the claims, written out from the buckets (units of 1/1200 h)
IsMonthly(task) == task.frequency = "monthly"

RECURSIVE SeqSum(_, _)
SeqSum(s, i) == IF i > Len(s) THEN 0 ELSE s[i].estimated_hours + SeqSum(s, i + 1)

UncappedTotalOf(tasks) ==
    6 * SeqSum(tasks.immediate_fixes, 1)
    + 12 * SeqSum(SelectSeq(tasks.ongoing, IsMonthly), 1)
    + SeqSum(tasks.short_term \o tasks.medium_term \o tasks.long_term, 1)

UncappedTotal == UncappedTotalOf(specific_tasks)

TierMax == service_tiers[tier].max_monthly_hours * 1200

TierBase == service_tiers[tier].base_monthly_hours * 1200

CappedTotal == IF UncappedTotal > TierMax THEN TierMax ELSE UncappedTotal

\* C2: monthly_total_hours (in tenths, after rounding to one decimal) is never
\* greater than the tier's max_monthly_hours (25 starter, 45 business, 65 pro).
C2_NeverAboveMax ==
    pc = "allocated" =>
        /\ hour_allocation.monthly_total_hours
              <= 10 * service_tiers[tier].max_monthly_hours
        /\ tier = "starter" => hour_allocation.monthly_total_hours <= 250
        /\ tier = "business" => hour_allocation.monthly_total_hours <= 450
        /\ tier = "pro" => hour_allocation.monthly_total_hours <= 650

\* buckets whose uncapped total exceeds the maximum were allocated
C2_Witness ==
    /\ pc = "allocated"
    /\ UncappedTotal > TierMax
    /\ hour_allocation.monthly_total_hours
          = 10 * service_tiers[tier].max_monthly_hours

\* C3: additional_monthly_cost (in cents) is (capped_total - base hours) x
\* hourly_rate rounded to 2 decimals when capped_total > base hours, else 0.
C3_AdditionalCost ==
    pc = "allocated" =>
        IF CappedTotal > TierBase
        THEN hour_allocation.additional_monthly_cost =
                RoundHalfEven((CappedTotal - TierBase)
                                 * service_tiers[tier].hourly_rate, 12)
        ELSE hour_allocation.additional_monthly_cost = 0

\* an overage whose cost is not a whole number of cents before rounding
C3_Witness ==
    /\ pc = "allocated"
    /\ CappedTotal > TierBase
    /\ ((CappedTotal - TierBase) * service_tiers[tier].hourly_rate) % 12 # 0
    /\ hour_allocation.additional_monthly_cost > 0

\* C4: the monthly total is (immediate_fixes hours / 2) + (hours of the
\* ongoing tasks whose frequency is monthly) + ((short_term + medium_term +
\* long_term hours) / 12), capped at the tier's max_monthly_hours; the
\* returned monthly_total_hours is that figure rounded to one decimal.
C4_MonthlyTotalFormula ==
    pc = "allocated" =>
        /\ hour_allocation.monthly_total_hours = RoundHalfEven(CappedTotal, 120)
        /\ hour_allocation.annual_hours = RoundHalfEven(CappedTotal, 10)

\* an uncapped total made of all three components, with an ongoing task that
\* is not monthly
C4_Witness ==
    /\ pc = "allocated"
    /\ UncappedTotal < TierMax
    /\ specific_tasks.immediate_fixes # <<>>
    /\ \E i \in DOMAIN specific_tasks.ongoing :
          specific_tasks.ongoing[i].frequency # "monthly"
    /\ Len(specific_tasks.short_term) + Len(specific_tasks.medium_term)
          + Len(specific_tasks.long_term) > 0

\* Buckets that differ from the given ones by one more short_term task
OneMoreShortTermTask(tasks) ==
    { [tasks EXCEPT !.short_term =
          Append(@, [estimated_hours |-> h, recurring |-> FALSE])] :
        h \in HourChoices }

\* C5 as stated: when the uncapped total exceeds the tier maximum, the
\* uncapped total is recoverable from the returned allocation, that is, no
\* other buckets with a different uncapped total get the same allocation.
C5_UncappedTotalRecoverable ==
    pc = "allocated" /\ UncappedTotal > TierMax =>
        \A other \in OneMoreShortTermTask(specific_tasks) :
            calculate_dynamic_hours(other, service_tiers[tier]) = hour_allocation
                => UncappedTotalOf(other) = UncappedTotal

\* C5 (amended): the three breakdown fields are the uncapped components, each
\* rounded to one decimal, also when the total is capped; so the sum of the
\* breakdown fields is within 0.15 h (180 units) of the uncapped total, and
\* the hours removed by the cap are reported to that precision only.
C5_BreakdownReportsUncapped ==
    pc = "allocated" =>
        LET b == hour_allocation.breakdown
            reported == 120 * (b.immediate_fixes_monthly + b.ongoing_tasks
                                  + b.additional_projects)
        IN  /\ b.immediate_fixes_monthly =
                  RoundHalfEven(6 * SeqSum(specific_tasks.immediate_fixes, 1), 120)
            /\ b.ongoing_tasks =
                  RoundHalfEven(
                     12 * SeqSum(SelectSeq(specific_tasks.ongoing, IsMonthly), 1),
                     120)
            /\ b.additional_projects =
                  RoundHalfEven(
                     SeqSum(specific_tasks.short_term \o specific_tasks.medium_term
                               \o specific_tasks.long_term, 1), 120)
            /\ reported - UncappedTotal <= 180
            /\ UncappedTotal - reported <= 180

\* a capped allocation whose breakdown shows more hours than the capped total
\* but not the exact uncapped total
C5_Witness ==
    /\ pc = "allocated"
    /\ UncappedTotal > TierMax
    /\ LET b == hour_allocation.breakdown
           reported == b.immediate_fixes_monthly + b.ongoing_tasks
                          + b.additional_projects
       IN  /\ reported > hour_allocation.monthly_total_hours
           /\ 120 * reported # UncappedTotal

-----------------------------------------------------------------------------
(* _generate_specific_tasks *)

\* one task per issue of a severity list, in the list's order
IssueTasks(issues, priority, deadline) ==
    [i \in 1..Len(issues) |->
        [task |-> issues[i]["task"],
         type |-> issues[i]["type"],
         priority |-> priority,
         estimated_hours |-> issues[i]["estimated_hours"],
         pages_affected |-> issues[i]["count"],
         deadline |-> deadline,
         recurring |-> Get(issues[i], "recurring", FALSE)]]

\* the static long-term tasks of Business and Pro
BusinessLongTermTasks ==
    << [task |-> "Develop comprehensive content strategy with keyword mapping",
        type |-> "content", priority |-> "important",
        estimated_hours |-> 560, deadline |-> "Month 3", recurring |-> FALSE],
       [task |-> "Implement advanced schema markup for key pages",
        type |-> "technical", priority |-> "important",
        estimated_hours |-> 840, deadline |-> "Month 4", recurring |-> FALSE] >>

\* the static long-term tasks of Pro only
ProLongTermTasks ==
    << [task |-> "Set up conversion rate optimization tests",
        type |-> "cro", priority |-> "important",
        estimated_hours |-> 1050, deadline |-> "Month 3", recurring |-> FALSE],
       [task |-> "Develop AI-optimized content for voice search",
        type |-> "content", priority |-> "important",
        estimated_hours |-> 1400, deadline |-> "Month 6", recurring |-> FALSE] >>

\* mutant: the Pro-only tasks are given to Business as well
long_term_tasks_progate(name) ==
    (IF name = "Business" \/ name = "Pro" THEN BusinessLongTermTasks ELSE <<>>)
    \o (IF name = "Business" \/ name = "Pro" THEN ProLongTermTasks ELSE <<>>)

long_term_tasks(name) ==
    (IF name = "Business" \/ name = "Pro" THEN BusinessLongTermTasks ELSE <<>>)
    \o (IF name = "Pro" THEN ProLongTermTasks ELSE <<>>)

OngoingTask(task, type, hours, frequency) ==
    [task |-> task, type |-> type, priority |-> "ongoing",
     estimated_hours |-> hours, frequency |-> frequency, recurring |-> TRUE]

StarterOngoingTasks ==
    << OngoingTask("Basic technical SEO monitoring and critical fixes only",
                   "technical", 280, "quarterly"),
       OngoingTask("Performance reporting and client updates",
                   "reporting", 210, "quarterly"),
       OngoingTask("Keyword ranking review and basic adjustments",
                   "monitoring", 140, "bi-annually") >>

BusinessOngoingTasks ==
    << OngoingTask("Technical SEO monitoring and fixes",
                   "technical", 350, "monthly"),
       OngoingTask("Performance reporting and strategic updates",
                   "reporting", 280, "monthly"),
       OngoingTask("Keyword ranking monitoring and content optimization",
                   "monitoring", 210, "monthly"),
       OngoingTask("Content strategy review and planning",
                   "content", 280, "quarterly") >>

ProOngoingTasks ==
    << OngoingTask("Advanced technical SEO monitoring and optimization",
                   "technical", 420, "monthly"),
       OngoingTask("Comprehensive performance reporting and strategic analysis",
                   "reporting", 350, "monthly"),
       OngoingTask("Page ranking movement analysis and content optimization",
                   "content", 350, "monthly"),
       OngoingTask("Conversion rate optimization monitoring and adjustments",
                   "cro", 280, "monthly"),
       OngoingTask("Advanced content strategy and AI optimization",
                   "content", 420, "monthly"),
       OngoingTask("Competitive analysis and strategic pivots",
                   "strategy", 350, "quarterly") >>

ongoing_tasks(name) ==
    IF name = "Starter" THEN StarterOngoingTasks
    ELSE IF name = "Business" THEN BusinessOngoingTasks
    ELSE ProOngoingTasks

IsRecurringIssue(issue) == Get(issue, "recurring", FALSE)

\* mutant: minor issues are scheduled with the important ones
generate_specific_tasks_minorshort(audit, tier_config) ==
    [immediate_fixes |->
        IssueTasks(Get(audit, "critical_issues", <<>>), "critical", "Week 2"),
     short_term |->
        IssueTasks(Get(audit, "important_issues", <<>>), "important", "Month 2")
        \o IssueTasks(Get(audit, "minor_issues", <<>>), "minor", "Month 4"),
     medium_term |-> <<>>,
     long_term |-> long_term_tasks(tier_config["name"]),
     ongoing |-> ongoing_tasks(tier_config["name"])]

\* mutant: recurring issues are added to the ongoing bucket
generate_specific_tasks_recurringissues(audit, tier_config) ==
    [immediate_fixes |->
        IssueTasks(Get(audit, "critical_issues", <<>>), "critical", "Week 2"),
     short_term |->
        IssueTasks(Get(audit, "important_issues", <<>>), "important", "Month 2"),
     medium_term |->
        IssueTasks(Get(audit, "minor_issues", <<>>), "minor", "Month 4"),
     long_term |-> long_term_tasks(tier_config["name"]),
     ongoing |->
        ongoing_tasks(tier_config["name"])
        \o IssueTasks(SelectSeq(Get(audit, "critical_issues", <<>>),
                                IsRecurringIssue), "ongoing", "Week 2")]

generate_specific_tasks(audit, tier_config) ==
    [immediate_fixes |->
        IssueTasks(Get(audit, "critical_issues", <<>>), "critical", "Week 2"),
     short_term |->
        IssueTasks(Get(audit, "important_issues", <<>>), "important", "Month 2"),
     medium_term |->
        IssueTasks(Get(audit, "minor_issues", <<>>), "minor", "Month 4"),
     long_term |-> long_term_tasks(tier_config["name"]),
     ongoing |-> ongoing_tasks(tier_config["name"])]

\* the pages a list of issues affects
RECURSIVE SumPagesAffected(_)
SumPagesAffected(issues) ==
    IF issues = <<>> THEN 0
    ELSE Get(Head(issues), "count", 0) + SumPagesAffected(Tail(issues))

\* mutant: total_issues counts the affected pages instead of the issue classes
AuditResultsOf_pagecount(critical_issues, important_issues, minor_issues, total_pages) ==
    [total_issues |->
        SumPagesAffected(critical_issues \o important_issues \o minor_issues),
     critical_issues |-> critical_issues,
     important_issues |-> important_issues,
     minor_issues |-> minor_issues,
     severity_breakdown |->
        [critical |-> Len(critical_issues),
         important |-> Len(important_issues),
         minor |-> Len(minor_issues)],
     total_pages_crawled |-> total_pages,
     estimated_fix_hours |->
        SumHours(critical_issues \o important_issues \o minor_issues),
     page_specific_data |-> TRUE]

\* the result record of _parse_audit_results for three issue lists
AuditResultsOf(critical_issues, important_issues, minor_issues, total_pages) ==
    [total_issues |->
        Len(critical_issues) + Len(important_issues) + Len(minor_issues),
     critical_issues |-> critical_issues,
     important_issues |-> important_issues,
     minor_issues |-> minor_issues,
     severity_breakdown |->
        [critical |-> Len(critical_issues),
         important |-> Len(important_issues),
         minor |-> Len(minor_issues)],
     total_pages_crawled |-> total_pages,
     estimated_fix_hours |->
        SumHours(critical_issues \o important_issues \o minor_issues),
     page_specific_data |-> TRUE]

-----------------------------------------------------------------------------
(* Specification SpecTasks: _generate_specific_tasks applied to audit      *)
(* results holding up to MaxIssues issues per severity list, and to the    *)
(* result of a failed audit, for each tier.                                *)

MaxIssues == 2

\* issues an audit result may hold; the third has no 'recurring' key
IssueChoices ==
    { [issue |-> "Missing Title Tags", task |-> "Add title tags",
       type |-> "technical", count |-> 3, estimated_hours |-> 51,
       recurring |-> FALSE],
      [issue |-> "Thin Content", task |-> "Expand thin content",
       type |-> "content", count |-> 18, estimated_hours |-> 1260,
       recurring |-> TRUE],
      [issue |-> "Missing Alt Text", task |-> "Add alt text",
       type |-> "accessibility", count |-> 45, estimated_hours |-> 315] }

BoundedSeq(S, n) == UNION { [1..k -> S] : k \in 0..n }

IssueLists == BoundedSeq(IssueChoices, MaxIssues)

FailedAudit == [error |-> "Audit failed", total_issues |-> 0]

AuditResultsInputs ==
    { AuditResultsOf(c, i, m, 147) :
        c \in IssueLists, i \in IssueLists, m \in IssueLists }
    \cup { FailedAudit }

InitTasks ==
    /\ pc = "audited"
    /\ tier \in TierKeys
    /\ audit_results \in AuditResultsInputs
    /\ recommended_tier = "none"
    /\ specific_tasks = NoTasks
    /\ hour_allocation = NoAllocation
    /\ plan = NoPlan
    /\ args = NoArgs
    /\ onpage_results = NoResponse
    /\ current_date = NoDate
    /\ csv_rows = <<>>
    /\ strategist = EnhancedSEOStrategist(NoDate, "", "", NoEnviron)
    /\ first_plan = NoPlan
    /\ error = NoError
    /\ post_response = NoResponse
    /\ api_calls = 0
    /\ log = <<>>
    /\ inputs = NoInputs
    /\ exit_status = "None"
    /\ monthly_plan = NoMonthlyPlan
    /\ files = <<>>

GenerateSpecificTasks ==
    /\ pc = "audited"
    /\ specific_tasks' =
          generate_specific_tasks(audit_results, service_tiers[tier])
    /\ pc' = "tasks"
    /\ UNCHANGED <<args, onpage_results, strategist, first_plan, error, post_response, api_calls,
                   log, inputs, exit_status, monthly_plan, files>>
    /\ UNCHANGED <<tier, audit_results, recommended_tier, hour_allocation,
                   plan, current_date, csv_rows>>

NextTasks == GenerateSpecificTasks

SpecTasks == InitTasks /\ [][NextTasks]_vars

\* the issues of a severity list of the audit result (none if the key is absent)
IssuesOf(key) ==
    IF key \in DOMAIN audit_results THEN audit_results[key] ELSE <<>>

\* bucket holds one task per issue of the list, in order, with the given
\* priority and deadline and the issue's text, type, hours and count
MirrorsIssues(bucket, issues, priority, deadline) ==
    /\ Len(bucket) = Len(issues)
    /\ \A i \in 1..Len(issues) :
          /\ bucket[i].task = issues[i].task
          /\ bucket[i].type = issues[i].type
          /\ bucket[i].estimated_hours = issues[i].estimated_hours
          /\ bucket[i].pages_affected = issues[i].count
          /\ bucket[i].priority = priority
          /\ bucket[i].deadline = deadline

\* C6: each critical issue becomes a task of immediate_fixes with deadline
\* "Week 2", each important issue one of short_term with deadline "Month 2",
\* each minor issue one of medium_term with deadline "Month 4", one task per
\* issue, in order, with the issue's hours and count; no issue lands in
\* another bucket (long_term and ongoing hold no task with pages_affected).
C6_SeverityToBucket ==
    pc = "tasks" =>
        /\ MirrorsIssues(specific_tasks.immediate_fixes,
                         IssuesOf("critical_issues"), "critical", "Week 2")
        /\ MirrorsIssues(specific_tasks.short_term,
                         IssuesOf("important_issues"), "important", "Month 2")
        /\ MirrorsIssues(specific_tasks.medium_term,
                         IssuesOf("minor_issues"), "minor", "Month 4")
        /\ \A i \in 1..Len(specific_tasks.long_term) :
              "pages_affected" \notin DOMAIN specific_tasks.long_term[i]
        /\ \A i \in 1..Len(specific_tasks.ongoing) :
              "pages_affected" \notin DOMAIN specific_tasks.ongoing[i]

\* an audit with issues of all three severities was turned into tasks
C6_Witness ==
    /\ pc = "tasks"
    /\ Len(specific_tasks.immediate_fixes) = 2
    /\ Len(specific_tasks.short_term) = 1
    /\ Len(specific_tasks.medium_term) = 1
    /\ specific_tasks.medium_term[1].deadline = "Month 4"
    /\ specific_tasks.immediate_fixes[1].task
          # specific_tasks.immediate_fixes[2].task

\* audit results to compare the result with: no issue, a failed audit, and
\* one issue in every list
OtherAudits ==
    { AuditResultsOf(<<>>, <<>>, <<>>, 0), FailedAudit }
    \cup { AuditResultsOf(<<x>>, <<x>>, <<x>>, 147) : x \in IssueChoices }

TaskTexts(bucket) == [i \in 1..Len(bucket) |-> bucket[i].task]

\* C7: long_term depends only on the tier: empty for Starter, the two static
\* tasks (content strategy, schema markup) for Business, those two followed
\* by the two Pro-only tasks (CRO tests, voice-search content) for Pro.
C7_LongTermByTier ==
    pc = "tasks" =>
        /\ tier = "starter" => specific_tasks.long_term = <<>>
        /\ tier = "business" =>
              TaskTexts(specific_tasks.long_term) =
                 << "Develop comprehensive content strategy with keyword mapping",
                    "Implement advanced schema markup for key pages" >>
        /\ tier = "pro" =>
              TaskTexts(specific_tasks.long_term) =
                 << "Develop comprehensive content strategy with keyword mapping",
                    "Implement advanced schema markup for key pages",
                    "Set up conversion rate optimization tests",
                    "Develop AI-optimized content for voice search" >>
        /\ \A other \in OtherAudits :
              generate_specific_tasks(other, service_tiers[tier]).long_term
                 = specific_tasks.long_term

\* Business tasks built from an audit that has issues
C7_Witness ==
    /\ pc = "tasks"
    /\ tier = "business"
    /\ audit_results.total_issues > 0
    /\ Len(specific_tasks.long_term) = 2

\* C8: ongoing is the same for any two audit results and the same tier, holds
\* no task made from an issue, and the three tiers have distinct ongoing
\* lists of 3 (Starter), 4 (Business) and 6 (Pro) tasks.
C8_OngoingStatic ==
    pc = "tasks" =>
        /\ \A other \in OtherAudits :
              generate_specific_tasks(other, service_tiers[tier]).ongoing
                 = specific_tasks.ongoing
        /\ \A t \in TierKeys \ {tier} :
              generate_specific_tasks(audit_results, service_tiers[t]).ongoing
                 # specific_tasks.ongoing
        /\ Len(specific_tasks.ongoing) =
              (IF tier = "starter" THEN 3 ELSE IF tier = "business" THEN 4 ELSE 6)
        /\ \A i \in 1..Len(specific_tasks.ongoing) :
              \A key \in {"critical_issues", "important_issues", "minor_issues"} :
                 \A j \in 1..Len(IssuesOf(key)) :
                    specific_tasks.ongoing[i].task # IssuesOf(key)[j].task

\* Pro tasks built from an audit with a recurring critical issue
C8_Witness ==
    /\ pc = "tasks"
    /\ tier = "pro"
    /\ \E j \in 1..Len(IssuesOf("critical_issues")) :
          IsRecurringIssue(IssuesOf("critical_issues")[j])
    /\ Len(specific_tasks.ongoing) = 6

-----------------------------------------------------------------------------
(* Strings and dates used by the exporters *)

\* s[:n]
Prefix(s, n) == IF Len(s) > n THEN SubSeq(s, 1, n) ELSE s

\* s.find(sub, from): the first index >= from where sub occurs, 0 if none
RECURSIVE IndexOf(_, _, _)
IndexOf(s, sub, from) ==
    IF from + Len(sub) - 1 > Len(s) THEN 0
    ELSE IF SubSeq(s, from, from + Len(sub) - 1) = sub THEN from
    ELSE IndexOf(s, sub, from + 1)

\* s.replace(sub, "")
RECURSIVE Remove(_, _)
Remove(s, sub) ==
    LET i == IndexOf(s, sub, 1)
    IN  IF i = 0 THEN s
        ELSE SubSeq(s, 1, i - 1) \o Remove(SubSeq(s, i + Len(sub), Len(s)), sub)

\* the end of the network location that starts at index from
RECURSIVE NetlocEnd(_, _)
NetlocEnd(s, from) ==
    IF from > Len(s) THEN Len(s)
    ELSE IF SubSeq(s, from, from) \in {"/", "?", "#"} THEN from - 1
    ELSE NetlocEnd(s, from + 1)

\* urlparse(url).netloc.replace("www.", "")
client_domain_of(url) ==
    LET i == IndexOf(url, "//", 1)
    IN  IF i = 0 THEN ""
        ELSE Remove(SubSeq(url, i + 2, NetlocEnd(url, i + 2)), "www.")

IsLeapYear(y) == (y % 4 = 0 /\ y % 100 # 0) \/ y % 400 = 0

DaysInMonth(y, m) ==
    IF m = 2 THEN (IF IsLeapYear(y) THEN 29 ELSE 28)
    ELSE IF m \in {4, 6, 9, 11} THEN 30 ELSE 31

\* date + timedelta(days = k), k >= 0
RECURSIVE AddDays(_, _)
AddDays(date, k) ==
    LET left == DaysInMonth(date.year, date.month) - date.day
    IN  IF k <= left THEN [date EXCEPT !.day = @ + k]
        ELSE AddDays([year |-> IF date.month = 12 THEN date.year + 1
                                                  ELSE date.year,
                      month |-> IF date.month = 12 THEN 1 ELSE date.month + 1,
                      day |-> 1],
                     k - left - 1)

Pad2(n) == IF n < 10 THEN "0" \o ToString(n) ELSE ToString(n)

\* date.strftime('%m/%d/%Y')
FormatDate(date) ==
    Pad2(date.month) \o "/" \o Pad2(date.day) \o "/" \o ToString(date.year)

MonthNames ==
    << "January", "February", "March", "April", "May", "June", "July",
       "August", "September", "October", "November", "December" >>

\* date.strftime('%B %Y')
FormatMonthYear(date) == MonthNames[date.month] \o " " \o ToString(date.year)

-----------------------------------------------------------------------------
(* _get_page_level_issues and _parse_audit_results *)

\* len(domain_pages): the page lists hold at most 18 pages
DomainPages == 18

\* the alt-text issue counts at most 45 images
MaxAltImages == 45

\* mutant: every page the check counts is listed, not only the pages known
PagesListed_unbounded(checks, name) ==
    IF Get(checks, name, 0) > 0 THEN checks[name] ELSE 0

\* the number of pages listed for a check: min(checks[name], len(domain_pages))
\* if checks.get(name, 0) > 0, no list otherwise
PagesListed(checks, name) ==
    IF Get(checks, name, 0) > 0 THEN Min(checks[name], DomainPages) ELSE 0

\* The task text of an issue with a page list: the header line and the page
\* lines.  The first page is always https://example.com/; the text after its
\* URL is abbreviated to the number of pages listed.
PageListText(header, first_line, n) ==
    header \o "\n  " \o first_line \o " [" \o ToString(n) \o " pages]"

\* mutant: issues are flagged recurring
IssueOf_recurring(type, issue, count, priority, hours, text) ==
    [type |-> type, issue |-> issue, count |-> count, priority |-> priority,
     estimated_hours |-> hours, task |-> text, recurring |-> TRUE]

IssueOf(type, issue, count, priority, hours, text) ==
    [type |-> type, issue |-> issue, count |-> count, priority |-> priority,
     estimated_hours |-> hours, task |-> text, recurring |-> FALSE]

Opt(cond, x) == IF cond THEN <<x>> ELSE <<>>

\* mutant: a missing title is charged at the rate of a duplicate title
critical_issues_of_duprate(checks) ==
    LET titles == PagesListed(checks, "no_title_tag")
        h1s == PagesListed(checks, "no_h1_tag")
        slow == PagesListed(checks, "high_loading_time")
    IN  Opt(titles > 0,
            IssueOf("technical", "Missing Title Tags", titles, "critical",
                    titles * 21,
                    PageListText(
                       "Add unique, optimized title tags to the following pages:",
                       "1. https://example.com/ - Current: No title", titles)))
        \o Opt(h1s > 0,
            IssueOf("onpage", "Missing H1 Tags", h1s, "critical", h1s * 17,
                    PageListText(
                       "Add keyword-optimized H1 tags to the following pages:",
                       "1. https://example.com/", h1s)))
        \o Opt(slow > 0,
            IssueOf("technical", "Slow Page Loading", slow, "critical",
                    Min(slow * 35, 1050),
                    PageListText(
                       "Optimize page speed for the following slow-loading pages:",
                       "1. https://example.com/ - Load time: 4.2s (Target: <3s)",
                       slow)))

critical_issues_of(checks) ==
    LET titles == PagesListed(checks, "no_title_tag")
        h1s == PagesListed(checks, "no_h1_tag")
        slow == PagesListed(checks, "high_loading_time")
    IN  Opt(titles > 0,
            IssueOf("technical", "Missing Title Tags", titles, "critical",
                    titles * 17,
                    PageListText(
                       "Add unique, optimized title tags to the following pages:",
                       "1. https://example.com/ - Current: No title", titles)))
        \o Opt(h1s > 0,
            IssueOf("onpage", "Missing H1 Tags", h1s, "critical", h1s * 17,
                    PageListText(
                       "Add keyword-optimized H1 tags to the following pages:",
                       "1. https://example.com/", h1s)))
        \o Opt(slow > 0,
            IssueOf("technical", "Slow Page Loading", slow, "critical",
                    Min(slow * 35, 1050),
                    PageListText(
                       "Optimize page speed for the following slow-loading pages:",
                       "1. https://example.com/ - Load time: 4.2s (Target: <3s)",
                       slow)))

important_issues_of(checks) ==
    LET dups == PagesListed(checks, "duplicate_title_tag")
        metas == PagesListed(checks, "no_meta_description")
        thin == PagesListed(checks, "low_content_rate")
        broken == PagesListed(checks, "is_4xx_code")
    IN  Opt(dups > 0,
            IssueOf("technical", "Duplicate Title Tags", dups, "important",
                    dups * 21,
                    "Rewrite duplicate title tags with unique, keyword-optimized versions:"
                       \o "\n\n  Pages sharing title \"Welcome to Our Website\":"
                       \o "\n    1. https://example.com/ ["
                       \o ToString(dups) \o " pages]"))
        \o Opt(metas > 0,
            IssueOf("onpage", "Missing Meta Descriptions", metas, "important",
                    metas * 14,
                    PageListText(
                       "Write compelling meta descriptions for the following pages:",
                       "1. https://example.com/", metas)))
        \o Opt(thin > 0,
            IssueOf("content", "Thin Content", thin, "important", thin * 70,
                    PageListText(
                       "Expand thin content on the following pages:",
                       "1. https://example.com/ - Current: 180 words", thin)))
        \o Opt(broken > 0,
            IssueOf("technical", "404 Errors", broken, "important", broken * 35,
                    PageListText(
                       "Fix or redirect broken pages causing 404 errors:",
                       "1. https://example.com/ (404 error)", broken)))

minor_issues_of(checks) ==
    LET image_count == Min(Get(checks, "no_image_alt", 0), MaxAltImages)
    IN  Opt(Get(checks, "no_image_alt", 0) > 0,
            IssueOf("accessibility", "Missing Alt Text", image_count, "minor",
                    Min(image_count * 7, 560),
                    "Add descriptive alt text to " \o ToString(image_count)
                       \o " images for accessibility and SEO"))

\* A JSON value that is not an object (null, a number, a string) is the
\* record [not_an_object |-> its text]; calling .get on it raises
\* AttributeError, which _parse_audit_results does not catch.
IsObject(value) == "not_an_object" \notin DOMAIN value

AttributeError == [type |-> "AttributeError", message |-> "object has no attribute 'get'"]

\* audit_data['tasks'][0]['result'][0] raises KeyError, IndexError or TypeError
RaisesOnLookup(audit_data) ==
    \/ "tasks" \notin DOMAIN audit_data
    \/ audit_data["tasks"] = <<>>
    \/ "result" \notin DOMAIN audit_data["tasks"][1]
    \/ audit_data["tasks"][1]["result"] = <<>>

\* str(e) of the exception that lookup raises
LookupErrorText(audit_data) ==
    IF "tasks" \notin DOMAIN audit_data THEN "'tasks'"
    ELSE IF audit_data["tasks"] = <<>> THEN "list index out of range"
    ELSE IF "result" \notin DOMAIN audit_data["tasks"][1] THEN "'result'"
    ELSE "list index out of range"

\* the summary, or [raised |-> exception] when an exception leaves the call
parse_audit_results(audit_data) ==
    IF Get(audit_data, "status_code", 0) # 20000
    THEN [error |-> "Audit failed", total_issues |-> 0]
    ELSE IF RaisesOnLookup(audit_data)
    THEN [error |-> "Failed to parse audit results: " \o LookupErrorText(audit_data),
          total_issues |-> 0]
    ELSE LET task_result == audit_data["tasks"][1]["result"][1]
         IN  IF ~IsObject(task_result) THEN [raised |-> AttributeError]
             ELSE
         LET items == IF Get(task_result, "items", <<>>) # <<>>
                      THEN task_result["items"][1] ELSE EmptyDict
         IN  IF ~IsObject(items) THEN [raised |-> AttributeError]
             ELSE
         LET checks == Get(items, "checks", EmptyDict)
         IN  IF ~IsObject(checks) THEN [raised |-> AttributeError]
             ELSE AuditResultsOf(critical_issues_of(checks),
                                 important_issues_of(checks),
                                 minor_issues_of(checks),
                                 Get(items, "total_pages", 0))

\* the part of analyze_website_real that generate_data_driven_plan reads, for
\* the response run_onpage_audit returned
analyze_website_real(url, response) ==
    LET audit_summary == parse_audit_results(response)
    IN  IF "raised" \in DOMAIN audit_summary THEN audit_summary
        ELSE [url |-> url,
              domain |-> client_domain_of(url),
              audit_results |-> audit_summary,
              issue_count |-> Get(audit_summary, "total_issues", 0),
              severity_breakdown |->
                 Get(audit_summary, "severity_breakdown", EmptyDict),
              recommended_tier |-> recommend_tier_from_audit(audit_summary)]

-----------------------------------------------------------------------------
(* DataForSEOClient *)

\* the checks _demo_response reports
DemoChecks ==
    [no_title_tag |-> 3, duplicate_title_tag |-> 5, long_title_tag |-> 12,
     no_meta_description |-> 8, duplicate_meta_description |-> 4,
     long_meta_description |-> 6, no_h1_tag |-> 2, duplicate_h1_tag |-> 1,
     low_content_rate |-> 15, high_loading_time |-> 23, is_redirect |-> 8,
     is_4xx_code |-> 2, is_5xx_code |-> 0, is_broken |-> 2,
     no_image_alt |-> 45, no_image_title |-> 38, no_favicon |-> 1,
     seo_friendly_url_characters_check |-> 12,
     seo_friendly_url_dynamic_check |-> 8,
     seo_friendly_url_keywords_check |-> 25,
     seo_friendly_url_relative_length_check |-> 18,
     canonical_chain_check |-> 3, no_doctype_check |-> 0, flash_check |-> 0,
     frame_check |-> 1, lorem_ipsum_check |-> 0]

\* the checks _parse_audit_results reads
CheckNames ==
    {"no_title_tag", "duplicate_title_tag", "no_h1_tag", "no_meta_description",
     "high_loading_time", "low_content_rate", "is_4xx_code", "no_image_alt"}

\* the response of _demo_response for the summary endpoint, with these checks
SummaryResponse(checks) ==
    [status_code |-> 20000,
     tasks |-> << [result |-> << [items |-> <<
        [checks |-> checks,
         total_pages |-> 147,
         pages_by_status_code |->
            ("200" :> 135) @@ ("301" :> 8) @@ ("404" :> 2) @@ ("302" :> 2)] >>] >>] >>]

demo_response(endpoint, data) ==
    IF IndexOf(endpoint, "on_page", 1) > 0 /\ IndexOf(endpoint, "summary", 1) > 0
    THEN SummaryResponse(DemoChecks)
    ELSE [status_code |-> 20000, tasks |-> << [result |-> <<>>] >>]

\* The answer of the network to one request: urlopen or json.loads raises
\* (kind "raise"), or the body parses to a JSON value (kind "json").
\* mutant: a failed request is repeated once before the fixture is used
make_request_retry(self, endpoint, data, outcome) ==
    IF self.demo_mode
    THEN [response |-> demo_response(endpoint, data), calls |-> 0, printed |-> <<>>]
    ELSE IF outcome.kind = "raise"
    THEN [response |-> demo_response(endpoint, data), calls |-> 2,
          printed |-> << "DataForSEO API error: " \o outcome.message >>]
    ELSE [response |-> outcome.body, calls |-> 1, printed |-> <<>>]

\* _make_request: the response, the number of requests sent, the lines printed
make_request(self, endpoint, data, outcome) ==
    IF self.demo_mode
    THEN [response |-> demo_response(endpoint, data), calls |-> 0, printed |-> <<>>]
    ELSE IF outcome.kind = "raise"
    THEN [response |-> demo_response(endpoint, data), calls |-> 1,
          printed |-> << "DataForSEO API error: " \o outcome.message >>]
    ELSE [response |-> outcome.body, calls |-> 1, printed |-> <<>>]

\* run_onpage_audit: post_response.get raises AttributeError when the body is
\* not an object; otherwise both branches return the summary fixture
run_onpage_audit(self, domain, outcome) ==
    LET task_data == << [target |-> domain, max_crawl_pages |-> 100] >>
        post == make_request(self, "/v3/on_page/task_post", task_data, outcome)
    IN  IF ~IsObject(post.response)
        THEN [raised |-> [type |-> "AttributeError",
                          message |-> "object has no attribute 'get'"],
              post_response |-> post.response,
              calls |-> post.calls, printed |-> post.printed]
        ELSE [result |-> demo_response("/v3/on_page/summary", task_data),
              post_response |-> post.response,
              calls |-> post.calls, printed |-> post.printed]

-----------------------------------------------------------------------------
(* The derived parts of a plan *)

\* [task['task'] for task in tasks]
task_texts(tasks) == [i \in 1..Len(tasks) |-> tasks[i]["task"]]

IsRecurringTask(task) == Get(task, "recurring", FALSE)

MonthKey(month) == "month_" \o ToString(month)

\* mutant: every month lists the tasks of immediate_fixes
MonthEntry_immediate(month, tasks) ==
    LET focus == IF month <= 2 THEN "Critical Issue Resolution"
                 ELSE IF month <= 4 THEN "Foundation Building & Optimization"
                 ELSE IF month <= 8 THEN "Strategic Improvements & Growth"
                 ELSE "Advanced Optimization & Scaling"
        bucket == Get(tasks, "immediate_fixes", <<>>)
        ongoing_texts ==
            task_texts(SelectSeq(Get(tasks, "ongoing", <<>>), IsRecurringTask))
        primary_tasks == Prefix(task_texts(bucket), 5) \o Prefix(ongoing_texts, 3)
    IN  [focus |-> focus,
         primary_tasks |-> Prefix(primary_tasks, 8),
         task_count |-> Len(primary_tasks),
         estimated_completion |->
            ToString(Min(Len(primary_tasks) * 15, 85)) \o "% of identified issues"]

\* mutant: a month takes four ongoing tasks, one more than the limit of 8 keeps
MonthEntry_fourongoing(month, tasks) ==
    LET focus == IF month <= 2 THEN "Critical Issue Resolution"
                 ELSE IF month <= 4 THEN "Foundation Building & Optimization"
                 ELSE IF month <= 8 THEN "Strategic Improvements & Growth"
                 ELSE "Advanced Optimization & Scaling"
        bucket == IF month <= 2 THEN Get(tasks, "immediate_fixes", <<>>)
                  ELSE IF month <= 4 THEN Get(tasks, "short_term", <<>>)
                  ELSE IF month <= 8 THEN Get(tasks, "medium_term", <<>>)
                  ELSE Get(tasks, "long_term", <<>>)
        ongoing_texts ==
            task_texts(SelectSeq(Get(tasks, "ongoing", <<>>), IsRecurringTask))
        primary_tasks == Prefix(task_texts(bucket), 5) \o Prefix(ongoing_texts, 4)
    IN  [focus |-> focus,
         primary_tasks |-> Prefix(primary_tasks, 8),
         task_count |-> Len(primary_tasks),
         estimated_completion |->
            ToString(Min(Len(primary_tasks) * 15, 85)) \o "% of identified issues"]

\* the entry of one month of _create_data_driven_monthly_plan
MonthEntry(month, tasks) ==
    LET focus == IF month <= 2 THEN "Critical Issue Resolution"
                 ELSE IF month <= 4 THEN "Foundation Building & Optimization"
                 ELSE IF month <= 8 THEN "Strategic Improvements & Growth"
                 ELSE "Advanced Optimization & Scaling"
        bucket == IF month <= 2 THEN Get(tasks, "immediate_fixes", <<>>)
                  ELSE IF month <= 4 THEN Get(tasks, "short_term", <<>>)
                  ELSE IF month <= 8 THEN Get(tasks, "medium_term", <<>>)
                  ELSE Get(tasks, "long_term", <<>>)
        ongoing_texts ==
            task_texts(SelectSeq(Get(tasks, "ongoing", <<>>), IsRecurringTask))
        primary_tasks == Prefix(task_texts(bucket), 5) \o Prefix(ongoing_texts, 3)
    IN  [focus |-> focus,
         primary_tasks |-> Prefix(primary_tasks, 8),
         task_count |-> Len(primary_tasks),
         estimated_completion |->
            ToString(Min(Len(primary_tasks) * 15, 85)) \o "% of identified issues"]

create_data_driven_monthly_plan(tasks) ==
    [key \in {MonthKey(month) : month \in 1..12} |->
        MonthEntry(CHOOSE month \in 1..12 : MonthKey(month) = key, tasks)]

\* the roadmap entries of one bucket
RoadmapEntries(tasks, phase, impact) ==
    [i \in 1..Len(tasks) |->
        [phase |-> phase, task |-> tasks[i]["task"],
         priority |-> tasks[i]["priority"],
         hours |-> tasks[i]["estimated_hours"], impact |-> impact]]

create_priority_roadmap(tasks) ==
    [roadmap |->
        Prefix(RoadmapEntries(Get(tasks, "immediate_fixes", <<>>),
                              "Immediate (Week 1-2)",
                              "Critical for site functionality")
               \o RoadmapEntries(Get(tasks, "short_term", <<>>),
                                 "Short-term (Month 1-2)",
                                 "Important for SEO foundation"),
               10)]

\* a number of tenths printed as a float with one decimal
FormatTenths(t) == ToString(t \div 10) \o "." \o ToString(t % 10)

IsTechnical(task) == Get(task, "type", "None") = "technical"

\* hours are in hundredths; automated_hours (x 0.3) is in thousandths
identify_automation_opportunities_enhanced(tasks) ==
    LET technical_tasks ==
            SelectSeq(Get(tasks, "immediate_fixes", <<>>), IsTechnical)
            \o SelectSeq(Get(tasks, "short_term", <<>>), IsTechnical)
        manual == SumHours(technical_tasks)
    IN  (IF Len(technical_tasks) > 5
         THEN << [task |-> "Technical SEO Issue Detection",
                  automation_potential |-> "High",
                  current_manual_hours |-> manual,
                  automated_hours |-> manual * 3,
                  monthly_savings |->
                     FormatTenths(RoundHalfEven(manual * 7, 100)) \o " hours",
                  implementation_effort |-> "Medium"] >>
         ELSE <<>>)
        \o << [task |-> "Automated Reporting Dashboard",
               automation_potential |-> "High",
               current_manual_hours |-> 800, automated_hours |-> 1000,
               monthly_savings |-> "7 hours",
               implementation_effort |-> "Medium"],
              [task |-> "Rank Tracking & Alerts",
               automation_potential |-> "High",
               current_manual_hours |-> 400, automated_hours |-> 500,
               monthly_savings |-> "3.5 hours",
               implementation_effort |-> "Low"] >>

\* f"{min(limit, round(hours / per_week, 1))} weeks": the int limit is printed
\* when the rounded value is not below it
WeeksText(hours, per_week, limit) ==
    LET tenths == RoundHalfEven(hours, 10 * per_week)
    IN  (IF tenths >= 10 * limit THEN ToString(limit) ELSE FormatTenths(tenths))
        \o " weeks"

calculate_timeline(tasks) ==
    [immediate_fixes_completion |->
        WeeksText(SumHours(Get(tasks, "immediate_fixes", <<>>)), 20, 2),
     short_term_completion |->
        WeeksText(SumHours(Get(tasks, "short_term", <<>>)), 15, 8),
     full_optimization_timeline |-> "6-12 months",
     first_results_expected |-> "4-6 weeks",
     significant_improvement |-> "3-4 months"]

generate_additional_recommendations(results, tier_key) ==
    LET critical_count ==
            Get(Get(results, "severity_breakdown", [none |-> 0]), "critical", 0)
        total_issues == Get(results, "total_issues", 0)
    IN  (IF critical_count > 10
         THEN << "Consider technical SEO sprint in first month to address critical issues quickly" >>
         ELSE <<>>)
        \o (IF total_issues > 50
            THEN << "Implement automated monitoring system to prevent future SEO issues" >>
            ELSE <<>>)
        \o (IF tier_key = "pro"
            THEN << "Set up advanced analytics and conversion tracking for ROI measurement",
                    "Consider content marketing integration for long-term organic growth" >>
            ELSE <<>>)

\* date.isoformat(), the date part
IsoFormat(date) ==
    ToString(date.year) \o "-" \o Pad2(date.month) \o "-" \o Pad2(date.day)

-----------------------------------------------------------------------------
(* generate_data_driven_plan: an argument that is None (or empty) is "None" *)
(* for tier and EmptyDict for audit_data.  The result is the plan, or the   *)
(* record [raised |-> exception] when an exception leaves the call.         *)

IsRaised(result) == "raised" \in DOMAIN result

\* self.service_tiers[tier] raises KeyError(tier) for a key it does not hold
KeyError(key) == [type |-> "KeyError", message |-> "'" \o key \o "'"]

\* mutant: a strategist with credentials audits the site again, whatever
\* audit data it was given
generate_data_driven_plan_reaudit(self, url, tier_arg, audit_data) ==
    LET audit == IF audit_data = EmptyDict \/ ~self.dataforseo.demo_mode
                 THEN analyze_website_real(url,
                         demo_response("/v3/on_page/summary", <<>>))
                 ELSE audit_data
        tier_key == IF tier_arg = "None" \/ tier_arg = ""
                    THEN Get(audit, "recommended_tier", "business")
                    ELSE tier_arg
    IN  IF tier_key \notin DOMAIN self.service_tiers
        THEN [raised |-> KeyError(tier_key)]
        ELSE
    LET tier_config == self.service_tiers[tier_key]
        results == Get(audit, "audit_results", EmptyDict)
        tasks == generate_specific_tasks(results, tier_config)
        hours == calculate_dynamic_hours(tasks, tier_config)
    IN  [client_info |->
            [url |-> url,
             tier |-> tier_config["name"],
             monthly_investment |-> tier_config["monthly_investment"],
             base_monthly_hours |-> tier_config["base_monthly_hours"],
             actual_monthly_hours |-> hours["monthly_total_hours"],
             plan_generated |-> IsoFormat(self.current_date),
             audit_summary |->
                [total_issues_found |-> Get(results, "total_issues", 0),
                 critical_issues |->
                    Get(Get(results, "severity_breakdown", EmptyDict),
                        "critical", 0),
                 pages_analyzed |-> Get(results, "total_pages_crawled", 0)]],
         audit_based_tasks |-> tasks,
         monthly_breakdown |-> create_data_driven_monthly_plan(tasks),
         hour_allocation |-> hours,
         priority_roadmap |-> create_priority_roadmap(tasks),
         automation_opportunities |->
            identify_automation_opportunities_enhanced(tasks),
         estimated_timeline |-> calculate_timeline(tasks),
         additional_recommendations |->
            generate_additional_recommendations(results, tier_key)]

generate_data_driven_plan(self, url, tier_arg, audit_data) ==
    LET \* run_onpage_audit returns the summary fixture whatever the request does
        audit == IF audit_data = EmptyDict
                 THEN analyze_website_real(url,
                         demo_response("/v3/on_page/summary", <<>>))
                 ELSE audit_data
        tier_key == IF tier_arg = "None" \/ tier_arg = ""
                    THEN Get(audit, "recommended_tier", "business")
                    ELSE tier_arg
    IN  IF tier_key \notin DOMAIN self.service_tiers
        THEN [raised |-> KeyError(tier_key)]
        ELSE
    LET tier_config == self.service_tiers[tier_key]
        results == Get(audit, "audit_results", EmptyDict)
        tasks == generate_specific_tasks(results, tier_config)
        hours == calculate_dynamic_hours(tasks, tier_config)
    IN  [client_info |->
            [url |-> url,
             tier |-> tier_config["name"],
             monthly_investment |-> tier_config["monthly_investment"],
             base_monthly_hours |-> tier_config["base_monthly_hours"],
             actual_monthly_hours |-> hours["monthly_total_hours"],
             plan_generated |-> IsoFormat(self.current_date),
             audit_summary |->
                [total_issues_found |-> Get(results, "total_issues", 0),
                 critical_issues |->
                    Get(Get(results, "severity_breakdown", EmptyDict),
                        "critical", 0),
                 pages_analyzed |-> Get(results, "total_pages_crawled", 0)]],
         audit_based_tasks |-> tasks,
         monthly_breakdown |-> create_data_driven_monthly_plan(tasks),
         hour_allocation |-> hours,
         priority_roadmap |-> create_priority_roadmap(tasks),
         automation_opportunities |->
            identify_automation_opportunities_enhanced(tasks),
         estimated_timeline |-> calculate_timeline(tasks),
         additional_recommendations |->
            generate_additional_recommendations(results, tier_key)]

-----------------------------------------------------------------------------
(* export_clickup_csv *)

\* the subtask threshold: subtasks are added if pages affected > 5
SubtaskThreshold == 5

\* one row of the CSV file; Time_Estimate is str(int(minutes))
CsvRow(name, priority, status, due, tags, list, minutes, parent, domain) ==
    [Name |-> name, Priority |-> priority, Status |-> status,
     Assignee |-> "", Due_Date |-> FormatDate(due), Tags |-> tags,
     List |-> list, Time_Estimate |-> ToString(minutes),
     Parent_Task |-> parent, Folder |-> domain \o " SEO",
     Space |-> "Client Projects"]

\* f"{label}: {task[:50]}..." if len(task) > 50 else f"{label}: {task}"
MainName(label, text) ==
    IF Len(text) > 50 THEN label \o ": " \o SubSeq(text, 1, 50) \o "..."
    ELSE label \o ": " \o text

\* int(hours * 60), hours in hundredths
Minutes(hours) == (hours * 60) \div 100

\* mutant: a last, shorter group of pages gets no subtask
subtask_count_floor(pages_affected, pages_per_subtask) ==
    pages_affected \div pages_per_subtask

subtask_count(pages_affected, pages_per_subtask) ==
    (pages_affected + pages_per_subtask - 1) \div pages_per_subtask

\* mutant: a subtask names its parent by the task's whole text
SubtaskRows_textparent(task, main_name, due, domain) ==
    LET n == Get(task, "pages_affected", 0)
    IN  IF n > SubtaskThreshold
        THEN LET pages_per_subtask == Max(5, n \div 3)
                 count == subtask_count(n, pages_per_subtask)
             IN  [k \in 1..count |->
                    LET j == k - 1
                        start_page == j * pages_per_subtask + 1
                        end_page == Min((j + 1) * pages_per_subtask, n)
                    IN  CsvRow("Pages " \o ToString(start_page) \o "-"
                                  \o ToString(end_page) \o ": "
                                  \o Prefix(task["task"], 30) \o "...",
                               "High", "to do", due,
                               "SEO,Critical," \o task["type"] \o ",Subtask",
                               "SEO Immediate Fixes",
                               (task["estimated_hours"] * 60) \div (100 * count),
                               "CRITICAL: " \o task["task"], domain)
                        @@ [pages |-> <<start_page, end_page>>]]
        ELSE <<>>

\* the subtask rows of an immediate task; pages is <<start_page, end_page>>,
\* the two numbers printed in the row's Name
SubtaskRows(task, main_name, due, domain) ==
    LET n == Get(task, "pages_affected", 0)
    IN  IF n > SubtaskThreshold
        THEN LET pages_per_subtask == Max(5, n \div 3)
                 count == subtask_count(n, pages_per_subtask)
             IN  [k \in 1..count |->
                    LET j == k - 1
                        start_page == j * pages_per_subtask + 1
                        end_page == Min((j + 1) * pages_per_subtask, n)
                    IN  CsvRow("Pages " \o ToString(start_page) \o "-"
                                  \o ToString(end_page) \o ": "
                                  \o Prefix(task["task"], 30) \o "...",
                               "High", "to do", due,
                               "SEO,Critical," \o task["type"] \o ",Subtask",
                               "SEO Immediate Fixes",
                               (task["estimated_hours"] * 60) \div (100 * count),
                               main_name, domain)
                        @@ [pages |-> <<start_page, end_page>>]]
        ELSE <<>>

RECURSIVE ImmediateRows(_, _, _, _)
ImmediateRows(tasks, tier_name, now, domain) ==
    IF tasks = <<>> THEN <<>>
    ELSE LET task == Head(tasks)
             due == AddDays(now, 14)
             main_task ==
                CsvRow(MainName("CRITICAL", task["task"]), "High", "to do", due,
                       "SEO,Critical," \o task["type"] \o "," \o tier_name,
                       "SEO Immediate Fixes", Minutes(task["estimated_hours"]),
                       "", domain)
         IN  <<main_task>> \o SubtaskRows(task, main_task.Name, due, domain)
                \o ImmediateRows(Tail(tasks), tier_name, now, domain)

\* the rows of the short_term, medium_term and long_term buckets
BucketRows(tasks, label, priority, tag, list, weeks, tier_name, now, domain) ==
    [i \in 1..Len(tasks) |->
        CsvRow(MainName(label, tasks[i]["task"]), priority, "to do",
               AddDays(now, 7 * weeks),
               "SEO," \o tag \o "," \o tasks[i]["type"] \o "," \o tier_name,
               list, Minutes(tasks[i]["estimated_hours"]), "", domain)]

\* frequency.upper()
Upper(frequency) ==
    CASE frequency = "monthly" -> "MONTHLY"
      [] frequency = "quarterly" -> "QUARTERLY"
      [] frequency = "bi-annually" -> "BI-ANNUALLY"
      [] OTHER -> frequency

\* the instances of one recurring task
RecurringInstances(task, tier_name, now, domain) ==
    LET frequency == Get(task, "frequency", "monthly")
        instances == CASE frequency = "monthly" -> 12
                       [] frequency = "quarterly" -> 4
                       [] frequency = "bi-annually" -> 2
                       [] OTHER -> 1
        interval == CASE frequency = "monthly" -> 30
                      [] frequency = "quarterly" -> 90
                      [] frequency = "bi-annually" -> 180
                      [] OTHER -> 30
    IN  [k \in 1..instances |->
           LET i == k - 1
               due == AddDays(now, interval * (i + 1))
               base_name == "RECURRING (" \o Upper(frequency) \o "): "
                               \o Prefix(task["task"], 40) \o "..."
               instance_name ==
                  IF instances > 1
                  THEN CASE frequency = "monthly" ->
                              base_name \o " - " \o FormatMonthYear(due)
                         [] frequency = "quarterly" ->
                              base_name \o " - Q" \o ToString(i + 1) \o " "
                                 \o ToString(IF i < 2 THEN now.year
                                                      ELSE now.year + 1)
                         [] frequency = "bi-annually" ->
                              base_name \o " - "
                                 \o (IF i = 0 THEN "H1" ELSE "H2") \o " "
                                 \o ToString(now.year)
                         [] OTHER -> base_name
                  ELSE base_name
           IN  CsvRow(instance_name, "Normal",
                      IF i = 0 THEN "to do" ELSE "future", due,
                      "SEO,Recurring," \o frequency \o "," \o task["type"]
                         \o "," \o tier_name,
                      "SEO Recurring Tasks", Minutes(task["estimated_hours"]),
                      "", domain)]

RECURSIVE RecurringRows(_, _, _, _)
RecurringRows(tasks, tier_name, now, domain) ==
    IF tasks = <<>> THEN <<>>
    ELSE (IF Get(Head(tasks), "recurring", FALSE)
          THEN RecurringInstances(Head(tasks), tier_name, now, domain)
          ELSE <<>>)
         \o RecurringRows(Tail(tasks), tier_name, now, domain)

\* the project overview row; actual_monthly_hours is in tenths of an hour
OverviewRow(the_plan, tier_name, now, domain) ==
    CsvRow("SEO Project Overview - " \o domain, "High", "in progress",
           AddDays(now, 365), "SEO,Project,Overview," \o tier_name,
           "SEO Projects",
           (the_plan["client_info"]["actual_monthly_hours"] * 12 * 60) \div 10,
           "", domain)

\* mutant: the long_term bucket is left out of the file
export_clickup_csv_nolongterm(the_plan, now) ==
    LET domain == client_domain_of(the_plan["client_info"]["url"])
        tier_name == the_plan["client_info"]["tier"]
        audit_tasks == Get(the_plan, "audit_based_tasks", [none |-> 0])
    IN  ImmediateRows(Get(audit_tasks, "immediate_fixes", <<>>),
                      tier_name, now, domain)
        \o BucketRows(Get(audit_tasks, "short_term", <<>>), "IMPORTANT",
                      "Normal", "Important", "SEO Short-term", 8,
                      tier_name, now, domain)
        \o BucketRows(Get(audit_tasks, "medium_term", <<>>), "MEDIUM",
                      "Low", "Medium", "SEO Medium-term", 16,
                      tier_name, now, domain)
        \o RecurringRows(Get(audit_tasks, "ongoing", <<>>),
                         tier_name, now, domain)
        \o << OverviewRow(the_plan, tier_name, now, domain) >>

export_clickup_csv(the_plan, now) ==
    LET domain == client_domain_of(the_plan["client_info"]["url"])
        tier_name == the_plan["client_info"]["tier"]
        audit_tasks == Get(the_plan, "audit_based_tasks", [none |-> 0])
    IN  ImmediateRows(Get(audit_tasks, "immediate_fixes", <<>>),
                      tier_name, now, domain)
        \o BucketRows(Get(audit_tasks, "short_term", <<>>), "IMPORTANT",
                      "Normal", "Important", "SEO Short-term", 8,
                      tier_name, now, domain)
        \o BucketRows(Get(audit_tasks, "medium_term", <<>>), "MEDIUM",
                      "Low", "Medium", "SEO Medium-term", 16,
                      tier_name, now, domain)
        \o BucketRows(Get(audit_tasks, "long_term", <<>>), "STRATEGIC",
                      "Low", "Strategic", "SEO Long-term", 24,
                      tier_name, now, domain)
        \o RecurringRows(Get(audit_tasks, "ongoing", <<>>),
                         tier_name, now, domain)
        \o << OverviewRow(the_plan, tier_name, now, domain) >>

-----------------------------------------------------------------------------
(* Specification SpecCsv: export_clickup_csv applied to the plans that     *)
(* generate_data_driven_plan builds, for each tier, from audit results     *)
(* whose first critical issue affects 0..MaxPages pages.                   *)

MaxPages == 20           \* largest number of pages affected by an issue
MaxMoreCritical == 1     \* critical issues after the first one

\* task texts: one of at most 50 characters, one longer
ShortText == "Add title tags"

LongText == "Add unique, optimized title tags to the following pages: /, /about"

FirstCriticalIssues ==
    { [issue |-> "Missing Title Tags", task |-> text, type |-> "technical",
       count |-> n, priority |-> "critical", estimated_hours |-> h,
       recurring |-> FALSE] :
        text \in {ShortText, LongText}, n \in 0..MaxPages, h \in {51, 630} }

MoreCriticalIssues ==
    { [issue |-> "Missing H1 Tags", task |-> "Add keyword-optimized H1 tags",
       type |-> "onpage", count |-> 2, priority |-> "critical",
       estimated_hours |-> 34, recurring |-> FALSE],
      [issue |-> "Slow Page Loading", task |-> LongText,
       type |-> "technical", count |-> 18, priority |-> "critical",
       estimated_hours |-> 630, recurring |-> FALSE] }

ImportantIssueLists ==
    { <<>>,
      << [issue |-> "Thin Content", task |-> "Expand thin content",
          type |-> "content", count |-> 15, priority |-> "important",
          estimated_hours |-> 1050, recurring |-> FALSE] >> }

MinorIssueLists ==
    { <<>>,
      << [issue |-> "Missing Alt Text", task |-> "Add alt text to 45 images",
          type |-> "accessibility", count |-> 45, priority |-> "minor",
          estimated_hours |-> 315, recurring |-> FALSE] >> }

CriticalIssueLists ==
    { <<>> } \cup
    { <<first>> \o more :
        first \in FirstCriticalIssues,
        more \in BoundedSeq(MoreCriticalIssues, MaxMoreCritical) }

DateChoices ==
    { [year |-> 2026, month |-> 1, day |-> 1],
      [year |-> 2026, month |-> 11, day |-> 6],
      [year |-> 2027, month |-> 12, day |-> 31] }

UrlChoices == {"https://www.example.com/services"}

InitCsv ==
    /\ pc = "planned"
    /\ tier \in TierKeys
    /\ current_date \in DateChoices
    /\ strategist = EnhancedSEOStrategist(current_date, "", "", NoEnviron)
    /\ \E c \in CriticalIssueLists, i \in ImportantIssueLists,
          m \in MinorIssueLists :
          audit_results = AuditResultsOf(c, i, m, 147)
    /\ recommended_tier = recommend_tier_from_audit(audit_results)
    /\ \E u \in UrlChoices : args = [url |-> u, tier |-> tier]
    /\ onpage_results = NoResponse
    /\ plan = generate_data_driven_plan(strategist, args.url, args.tier,
                 [audit_results |-> audit_results,
                  recommended_tier |-> recommended_tier])
    /\ specific_tasks = plan.audit_based_tasks
    /\ hour_allocation = plan.hour_allocation
    /\ csv_rows = <<>>
    /\ first_plan = NoPlan
    /\ error = NoError
    /\ post_response = NoResponse
    /\ api_calls = 0
    /\ log = <<>>
    /\ inputs = NoInputs
    /\ exit_status = "None"
    /\ monthly_plan = NoMonthlyPlan
    /\ files = <<>>

ExportClickupCsv ==
    /\ pc = "planned"
    /\ csv_rows' = export_clickup_csv(plan, current_date)
    /\ pc' = "exported"
    /\ UNCHANGED <<args, onpage_results, strategist, first_plan, error, post_response, api_calls,
                   log, inputs, exit_status, monthly_plan, files>>
    /\ UNCHANGED <<tier, audit_results, recommended_tier, specific_tasks,
                   hour_allocation, plan, current_date>>

NextCsv == ExportClickupCsv

SpecCsv == InitCsv /\ [][NextCsv]_vars

\* ceil(n / d): the least c with c * d >= n
CeilDiv(n, d) == CHOOSE c \in 0..n : c * d >= n /\ (c = 0 \/ (c - 1) * d < n)

\* the number of subtasks the claim gives a task with n pages affected
ClaimedSubtasks(n) ==
    IF n > 5 THEN CeilDiv(n, IF n \div 3 > 5 THEN n \div 3 ELSE 5) ELSE 0

\* the index in csv_rows of the main row of the k-th immediate task, if every
\* earlier task has the claimed number of subtasks
RECURSIVE MainRowIndex(_)
MainRowIndex(k) ==
    IF k = 1 THEN 1
    ELSE MainRowIndex(k - 1) + 1
            + ClaimedSubtasks(plan.audit_based_tasks.immediate_fixes[k - 1].pages_affected)

IsSubtaskRow(row) == "pages" \in DOMAIN row

\* C10: an immediate task with pages_affected = n > 5 gets
\* ceil(n / max(5, n div 3)) subtask rows right after its main row; their page
\* ranges are non-empty, start at 1, each starts right after the previous one
\* ends, and the last ends at n; a task with n <= 5 gets none.
C10_SubtaskPartition ==
    pc = "exported" =>
        LET tasks == plan.audit_based_tasks.immediate_fixes
        IN  /\ Cardinality({r \in DOMAIN csv_rows :
                              csv_rows[r].List = "SEO Immediate Fixes"})
                 = MainRowIndex(Len(tasks) + 1) - 1
            /\ \A k \in 1..Len(tasks) :
                 LET n == tasks[k].pages_affected
                     at == MainRowIndex(k)
                     cnt == ClaimedSubtasks(n)
                 IN  /\ ~IsSubtaskRow(csv_rows[at])
                     /\ \A j \in 1..cnt :
                          /\ IsSubtaskRow(csv_rows[at + j])
                          /\ csv_rows[at + j].pages[1] <= csv_rows[at + j].pages[2]
                          /\ csv_rows[at + j].pages[1] =
                                (IF j = 1 THEN 1
                                 ELSE csv_rows[at + j - 1].pages[2] + 1)
                          /\ j = cnt => csv_rows[at + j].pages[2] = n
                     /\ at + cnt < Len(csv_rows)
                     /\ ~IsSubtaskRow(csv_rows[at + cnt + 1])

\* a task with 17 pages got the four subtasks 1-5, 6-10, 11-15, 16-17
C10_Witness ==
    /\ pc = "exported"
    /\ plan.audit_based_tasks.immediate_fixes # <<>>
    /\ plan.audit_based_tasks.immediate_fixes[1].pages_affected = 17
    /\ Len(csv_rows) > 5
    /\ csv_rows[2].pages = <<1, 5>>
    /\ csv_rows[3].pages = <<6, 10>>
    /\ csv_rows[4].pages = <<11, 15>>
    /\ csv_rows[5].pages = <<16, 17>>
    /\ csv_rows[5].Name = "Pages 16-17: Add title tags..."
    /\ ~IsSubtaskRow(csv_rows[6])

\* the ClickUp list and the name label of the rows of a bucket
BucketList(b) ==
    CASE b = "immediate_fixes" -> "SEO Immediate Fixes"
      [] b = "short_term" -> "SEO Short-term"
      [] b = "medium_term" -> "SEO Medium-term"
      [] b = "long_term" -> "SEO Long-term"
      [] b = "ongoing" -> "SEO Recurring Tasks"

BucketLabel(b) ==
    CASE b = "immediate_fixes" -> "CRITICAL"
      [] b = "short_term" -> "IMPORTANT"
      [] b = "medium_term" -> "MEDIUM"
      [] b = "long_term" -> "STRATEGIC"
      [] b = "ongoing" -> "RECURRING"

\* the rows of one list that are not subtask rows, in the order of the file
MainRowsOf(list) ==
    LET IsMainRow(row) == row.List = list /\ ~IsSubtaskRow(row)
    IN  SelectSeq(csv_rows, IsMainRow)

\* the subtask rows written for the k-th task of bucket b: for an immediate
\* task the rows that follow its main row, for the other buckets the subtask
\* rows of the bucket's list that name the task's main row as their parent
SubtaskRowsOf(b, k) ==
    LET task == plan.audit_based_tasks[b][k]
        IsChild(row) ==
            /\ IsSubtaskRow(row)
            /\ row.List = BucketList(b)
            /\ row.Parent_Task = MainName(BucketLabel(b), task.task)
    IN  IF b = "immediate_fixes"
        THEN SubSeq(csv_rows, MainRowIndex(k) + 1,
                    MainRowIndex(k) + ClaimedSubtasks(task.pages_affected))
        ELSE SelectSeq(csv_rows, IsChild)

\* C11: every task of immediate_fixes, short_term or medium_term whose
\* pages_affected exceeds 5 has subtask rows; they name the task's main row as
\* Parent Task, their page ranges cover each of the task's pages, and each
\* carries the task's estimated hours divided by the number of subtasks.
C11_SubtasksInEveryBucket ==
    pc = "exported" =>
        \A b \in {"immediate_fixes", "short_term", "medium_term"} :
            \A k \in DOMAIN plan.audit_based_tasks[b] :
                LET task == plan.audit_based_tasks[b][k]
                    n == task.pages_affected
                    subs == SubtaskRowsOf(b, k)
                IN  n > 5 =>
                      /\ subs # <<>>
                      /\ \A p \in 1..n :
                            \E j \in DOMAIN subs :
                               subs[j].pages[1] <= p /\ p <= subs[j].pages[2]
                      /\ \A j \in DOMAIN subs :
                            /\ subs[j].Parent_Task
                                  = MainName(BucketLabel(b), task.task)
                            /\ subs[j].Time_Estimate =
                                  ToString((task.estimated_hours * 60)
                                              \div (100 * Len(subs)))

\* C12 as stated: every task of each of the five buckets is exactly one row
\* of the file, its subtask rows apart.
C12_ExactlyOneRowPerTask ==
    pc = "exported" =>
        \A b \in BucketNames :
            Len(MainRowsOf(BucketList(b))) = Len(plan.audit_based_tasks[b])

\* the number of rows written for an ongoing task
InstancesOf(task) ==
    IF ~Get(task, "recurring", FALSE) THEN 0
    ELSE IF Get(task, "frequency", "monthly") = "monthly" THEN 12
    ELSE IF task.frequency = "quarterly" THEN 4
    ELSE IF task.frequency = "bi-annually" THEN 2
    ELSE 1

\* the number of rows written for the first k ongoing tasks
RECURSIVE InstancesBefore(_)
InstancesBefore(k) ==
    IF k = 0 THEN 0
    ELSE InstancesBefore(k - 1) + InstancesOf(plan.audit_based_tasks.ongoing[k])

NumberOfSubtaskRows == Cardinality({r \in DOMAIN csv_rows : IsSubtaskRow(csv_rows[r])})

\* C12 (amended): every task of immediate_fixes, short_term, medium_term and
\* long_term is exactly one row of its list (subtask rows apart), in the
\* bucket's order and named after the task; an ongoing task whose recurring
\* flag is set is one row per instance, 12 if monthly, 4 if quarterly, 2 if
\* bi-annually, and none without the flag; one overview row ends the file and
\* the file holds no other row.
C12_RowsPerTask ==
    pc = "exported" =>
        LET buckets == plan.audit_based_tasks
            recurring_rows == MainRowsOf(BucketList("ongoing"))
        IN  /\ \A b \in ProjectBuckets :
                 LET rows == MainRowsOf(BucketList(b))
                 IN  /\ Len(rows) = Len(buckets[b])
                     /\ \A k \in DOMAIN rows :
                          rows[k].Name = MainName(BucketLabel(b), buckets[b][k].task)
            /\ Len(recurring_rows) = InstancesBefore(Len(buckets.ongoing))
            /\ \A k \in DOMAIN buckets.ongoing :
                 \A j \in 1..InstancesOf(buckets.ongoing[k]) :
                    LET row == recurring_rows[InstancesBefore(k - 1) + j]
                    IN  /\ IndexOf(row.Name, Prefix(buckets.ongoing[k].task, 40), 1) > 0
                        /\ IndexOf(row.Tags, buckets.ongoing[k].frequency, 1) > 0
            /\ csv_rows[Len(csv_rows)].List = "SEO Projects"
            /\ Len(csv_rows) =
                  Len(buckets.immediate_fixes) + Len(buckets.short_term)
                  + Len(buckets.medium_term) + Len(buckets.long_term)
                  + Len(recurring_rows) + NumberOfSubtaskRows + 1

\* a Pro plan with tasks in every bucket: five monthly tasks and a quarterly
\* one give 64 recurring rows
C12_Witness ==
    /\ pc = "exported"
    /\ \A b \in BucketNames : plan.audit_based_tasks[b] # <<>>
    /\ Len(plan.audit_based_tasks.ongoing) = 6
    /\ Len(MainRowsOf("SEO Recurring Tasks")) = 64
    /\ Len(MainRowsOf("SEO Long-term")) = 4
    /\ NumberOfSubtaskRows > 0

\* C13: the Time Estimate of the row of a task is round(estimated_hours x 60)
\* minutes, for the rows of the four project buckets and of the recurring
\* tasks (0.51 hours gives 31).
C13_TimeEstimateRounded ==
    pc = "exported" =>
        LET buckets == plan.audit_based_tasks
            recurring_rows == MainRowsOf(BucketList("ongoing"))
        IN  /\ \A b \in ProjectBuckets :
                 LET rows == MainRowsOf(BucketList(b))
                 IN  \A k \in DOMAIN rows :
                        rows[k].Time_Estimate =
                           ToString(RoundHalfEven(buckets[b][k].estimated_hours * 60, 100))
            /\ \A k \in DOMAIN buckets.ongoing :
                 \A j \in 1..InstancesOf(buckets.ongoing[k]) :
                    recurring_rows[InstancesBefore(k - 1) + j].Time_Estimate =
                       ToString(RoundHalfEven(buckets.ongoing[k].estimated_hours * 60, 100))

-----------------------------------------------------------------------------
(* Specification SpecPlan: analyze_website_real followed by                *)
(* generate_data_driven_plan, as main calls them, for audit responses      *)
(* whose eight checks take the counts 0, 3 and MaxCount, for the demo       *)
(* fixture and for responses that lack what the parser reads, with and     *)
(* without a --tier argument.                                              *)

MaxCount == 60           \* largest count of a check in the audit response

CountChoices == {0, 3, MaxCount}

\* responses that lack what _parse_audit_results reads
MalformedResponses ==
    { [status_code |-> 40100, status_message |-> "Authentication failed"],
      [tasks |-> <<>>],
      [status_code |-> 20000],
      [status_code |-> 20000, tasks |-> <<>>],
      [status_code |-> 20000, tasks |-> << [id |-> "11081545"] >>],
      [status_code |-> 20000, tasks |-> << [result |-> <<>>] >>],
      [status_code |-> 20000, tasks |-> << [result |-> << [crawl_progress |-> "finished"] >>] >>],
      [status_code |-> 20000, tasks |-> << [result |-> << [items |-> <<>>] >>] >>],
      [status_code |-> 20000,
       tasks |-> << [result |-> << [items |-> << [total_pages |-> 147] >>] >>] >>],
      [status_code |-> 20000,
       tasks |-> << [result |-> << [items |-> << [not_an_object |-> "null"] >>] >>] >>] }

PlanUrlChoices == UrlChoices \cup {"https://example.com"}

InitPlan ==
    /\ pc = "start"
    /\ \E u \in PlanUrlChoices, t \in TierKeys \cup {"None"} :
          args = [url |-> u, tier |-> t]
    /\ \/ \E checks \in [CheckNames -> CountChoices] :
             onpage_results = SummaryResponse(checks)
       \/ onpage_results = demo_response("/v3/on_page/summary", <<>>)
       \/ onpage_results \in MalformedResponses
    /\ tier = "none"
    /\ audit_results = NoAudit
    /\ recommended_tier = "none"
    /\ specific_tasks = NoTasks
    /\ hour_allocation = NoAllocation
    /\ plan = NoPlan
    /\ current_date = NoDate
    /\ csv_rows = <<>>
    /\ strategist = EnhancedSEOStrategist(NoDate, "", "", NoEnviron)
    /\ first_plan = NoPlan
    /\ error = NoError
    /\ post_response = NoResponse
    /\ api_calls = 0
    /\ log = <<>>
    /\ inputs = NoInputs
    /\ exit_status = "None"
    /\ monthly_plan = NoMonthlyPlan
    /\ files = <<>>

\* main: audit_data = strategist.analyze_website_real(args.url); an exception
\* that leaves the call ends the run
AnalyzeWebsite ==
    /\ pc = "start"
    /\ LET analysis == analyze_website_real(args.url, onpage_results)
       IN  IF IsRaised(analysis)
           THEN /\ error' = analysis.raised
                /\ pc' = "failed"
                /\ UNCHANGED <<audit_results, recommended_tier>>
           ELSE /\ audit_results' = analysis.audit_results
                /\ recommended_tier' = analysis.recommended_tier
                /\ pc' = "audited"
                /\ error' = error
    /\ UNCHANGED <<args, onpage_results, tier, specific_tasks,
                   hour_allocation, plan, current_date, csv_rows>>
    /\ UNCHANGED <<strategist, first_plan, post_response, api_calls,
                   log, inputs, exit_status, monthly_plan, files>>

GeneratePlan ==
    /\ pc = "audited"
    /\ tier' = IF args.tier = "None" THEN recommended_tier ELSE args.tier
    /\ plan' = generate_data_driven_plan(strategist, args.url, tier',
                  [audit_results |-> audit_results,
                   recommended_tier |-> recommended_tier])
    /\ specific_tasks' = plan'.audit_based_tasks
    /\ hour_allocation' = plan'.hour_allocation
    /\ pc' = "planned"
    /\ UNCHANGED <<args, onpage_results, audit_results, recommended_tier,
                   current_date, csv_rows>>
    /\ UNCHANGED <<strategist, first_plan, error, post_response, api_calls,
                   log, inputs, exit_status, monthly_plan, files>>

NextPlan == AnalyzeWebsite \/ GeneratePlan

SpecPlan == InitPlan /\ [][NextPlan]_vars

\* the places (bucket, index) of the plan's tasks
TaskPlaces ==
    UNION { { <<b, i>> : i \in DOMAIN plan.audit_based_tasks[b] } :
              b \in BucketNames }

TaskAt(place) == plan.audit_based_tasks[place[1]][place[2]]

ChecksOf(response) == response.tasks[1].result[1].items[1].checks

HasChecks(response) ==
    /\ response \notin MalformedResponses
    /\ "checks" \in DOMAIN response.tasks[1].result[1].items[1]

C19_MalformedGivesTaggedEmpty ==
    onpage_results \in MalformedResponses =>
        /\ pc # "failed"
        /\ pc \in {"audited", "planned"} =>
              /\ audit_results.total_issues = 0
              /\ "error" \in DOMAIN audit_results
        /\ pc = "planned" =>
              /\ plan.audit_based_tasks.immediate_fixes = <<>>
              /\ plan.audit_based_tasks.short_term = <<>>
              /\ plan.audit_based_tasks.medium_term = <<>>

\* the task texts of a list of tasks or of roadmap entries, in order
TextSeq(list) == [i \in DOMAIN list |-> list[i].task]

\* C22: in every plan, the priority roadmap has at most 10 entries, and they
\* are the first tasks of immediate_fixes, then short_term, then medium_term,
\* then long_term, each bucket in its own order (the first 10 of the four
\* buckets laid end to end).
C22_RoadmapIsTopOfAllBuckets ==
    pc = "planned" =>
        /\ Len(plan.priority_roadmap.roadmap) <= 10
        /\ TextSeq(plan.priority_roadmap.roadmap) =
              Prefix(TextSeq(plan.audit_based_tasks.immediate_fixes)
                     \o TextSeq(plan.audit_based_tasks.short_term)
                     \o TextSeq(plan.audit_based_tasks.medium_term)
                     \o TextSeq(plan.audit_based_tasks.long_term), 10)

\* what run_onpage_audit returns to a strategist without credentials
DemoModeResult(url) ==
    run_onpage_audit(EnhancedSEOStrategist(NoDate, "", "", NoEnviron).dataforseo,
                     client_domain_of(url),
                     [kind |-> "raise", message |-> ""]).result

\* C25: the analysis of the response the demo-mode client returns has, for
\* every URL, total_issues 8, severity_breakdown critical 3, important 4 and
\* minor 1, and recommended_tier business; the analysis of any response has
\* total_issues at most 8, a critical count at most 3, and total_issues equal
\* to critical + important + minor.
C25_DemoTotals ==
    pc \in {"audited", "planned"} =>
        LET breakdown == Get(audit_results, "severity_breakdown", EmptyDict)
        IN  /\ onpage_results = DemoModeResult(args.url) =>
                  /\ audit_results.total_issues = 8
                  /\ breakdown = [critical |-> 3, important |-> 4, minor |-> 1]
                  /\ recommended_tier = "business"
            /\ audit_results.total_issues <= 8
            /\ Get(breakdown, "critical", 0) <= 3
            /\ audit_results.total_issues =
                  Get(breakdown, "critical", 0) + Get(breakdown, "important", 0)
                     + Get(breakdown, "minor", 0)

\* the analysis of the demo-mode response
C25_Witness ==
    /\ pc = "audited"
    /\ onpage_results = DemoModeResult(args.url)
    /\ audit_results.total_issues = 8
    /\ recommended_tier = "business"

\* C24: for every checks map of the audit and every tier, the plan's
\* uncapped monthly total is strictly below the tier's base_monthly_hours, so
\* the cap at max_monthly_hours is not applied and additional_hours and
\* additional_monthly_cost are 0.
C24_NeverCapped ==
    pc = "planned" =>
        /\ UncappedTotal < TierBase
        /\ UncappedTotal < TierMax
        /\ hour_allocation.additional_hours = 0
        /\ hour_allocation.additional_monthly_cost = 0

\* the plan of an audit that reports MaxCount pages for every check, whose
\* page lists and image count are at their limits
C24_Witness ==
    /\ pc = "planned"
    /\ onpage_results = SummaryResponse([n \in CheckNames |-> MaxCount])
    /\ tier = "starter"
    /\ plan.audit_based_tasks.immediate_fixes[1].pages_affected = DomainPages
    /\ plan.audit_based_tasks.medium_term[1].pages_affected = MaxAltImages
    /\ UncappedTotal > 8 * 1200
    /\ hour_allocation.additional_hours = 0

\* the main-task rows of the immediate fixes
IsMainRow(row) == row.List = "SEO Immediate Fixes" /\ ~IsSubtaskRow(row)

\* the index of the last row before r that is not a subtask row (0 if none)
ParentIndex(r) ==
    IF \E m \in 1..(r - 1) : ~IsSubtaskRow(csv_rows[m])
    THEN CHOOSE m \in 1..(r - 1) :
            /\ ~IsSubtaskRow(csv_rows[m])
            /\ \A k \in (m + 1)..(r - 1) : IsSubtaskRow(csv_rows[k])
    ELSE 0

\* every subtask row names the main row before its group as its parent, and
\* the rows that are not subtasks have no parent
ParentLinkage ==
    \A r \in DOMAIN csv_rows :
       IF IsSubtaskRow(csv_rows[r])
       THEN /\ ParentIndex(r) > 0
            /\ IsMainRow(csv_rows[ParentIndex(r)])
            /\ csv_rows[r].Parent_Task = csv_rows[ParentIndex(r)].Name
       ELSE csv_rows[r].Parent_Task = ""

\* the parent name of every subtask row is the Name of exactly one main row
ParentNamesUnique ==
    \A r \in DOMAIN csv_rows :
       IsSubtaskRow(csv_rows[r]) =>
          Cardinality({ m \in DOMAIN csv_rows :
                          /\ IsMainRow(csv_rows[m])
                          /\ csv_rows[m].Name = csv_rows[r].Parent_Task }) = 1

DistinctPrefixes ==
    \A i \in DOMAIN plan.audit_based_tasks.immediate_fixes,
       j \in DOMAIN plan.audit_based_tasks.immediate_fixes :
          Prefix(plan.audit_based_tasks.immediate_fixes[i].task, 50)
             = Prefix(plan.audit_based_tasks.immediate_fixes[j].task, 50)
          => i = j

-----------------------------------------------------------------------------
(* Specification SpecCall: generate_data_driven_plan called directly,      *)
(* twice with the same url, tier and audit data, the second time on the    *)
(* same strategist or on one constructed later with other credentials.     *)

CallTiers == TierKeys \cup {"None", "", "enterprise", "Starter"}

\* the audit data a caller passes: None, results of analyze_website_real, and
\* a dict without a recommended tier
CallAudits ==
    { EmptyDict,
      [audit_results |-> [error |-> "Audit failed", total_issues |-> 0]] }
    \cup { analyze_website_real("https://example.com", response) :
             response \in { SummaryResponse(DemoChecks),
                            SummaryResponse([n \in CheckNames |->
                               IF n = "no_title_tag" THEN 3 ELSE 0]) } }

Credentials == { <<"", "">>, <<"login", "secret">> }

StrategistChoices ==
    { EnhancedSEOStrategist(now, c[1], c[2], NoEnviron) :
         now \in DateChoices, c \in Credentials }

\* what the network does with the request of one call
Outcomes ==
    { [kind |-> "raise", message |-> "<urlopen error timed out>"],
      [kind |-> "json", body |-> [status_code |-> 20000, tasks |-> << [id |-> "11081545"] >>]],
      [kind |-> "json", body |-> [status_code |-> 40100]],
      [kind |-> "json", body |-> [not_an_object |-> "null"]] }

InitCall ==
    /\ pc = "start"
    /\ \E u \in PlanUrlChoices, t \in CallTiers, a \in CallAudits :
          args = [url |-> u, tier |-> t, audit_data |-> a]
    /\ strategist \in StrategistChoices
    /\ onpage_results = NoResponse
    /\ tier = "none"
    /\ audit_results = NoAudit
    /\ recommended_tier = "none"
    /\ specific_tasks = NoTasks
    /\ hour_allocation = NoAllocation
    /\ plan = NoPlan
    /\ current_date = NoDate
    /\ csv_rows = <<>>
    /\ first_plan = NoPlan
    /\ error = NoError
    /\ post_response = NoResponse
    /\ api_calls = 0
    /\ log = <<>>
    /\ inputs = NoInputs
    /\ exit_status = "None"
    /\ monthly_plan = NoMonthlyPlan
    /\ files = <<>>

\* one call strategist.generate_data_driven_plan(url, tier, audit_data): the
\* audit it runs when no audit data is given, then the plan or the exception
CallResult(outcome) ==
    LET audit == IF args.audit_data = EmptyDict
                 THEN run_onpage_audit(strategist.dataforseo,
                                       client_domain_of(args.url), outcome)
                 ELSE [result |-> NoResponse, calls |-> 0, printed |-> <<>>]
    IN  [result |-> IF IsRaised(audit) THEN [raised |-> audit.raised]
                    ELSE generate_data_driven_plan(strategist, args.url,
                                                   args.tier, args.audit_data),
         calls |-> audit.calls,
         printed |-> audit.printed]

FirstCall ==
    /\ pc = "start"
    /\ \E outcome \in Outcomes :
          \E call \in {CallResult(outcome)} :
              /\ IF IsRaised(call.result)
                 THEN /\ error' = call.result.raised
                      /\ pc' = "failed"
                      /\ UNCHANGED <<plan, first_plan>>
                 ELSE /\ plan' = call.result
                      /\ first_plan' = call.result
                      /\ pc' = "called"
                      /\ error' = error
              /\ api_calls' = api_calls + call.calls
              /\ log' = log \o call.printed
    /\ UNCHANGED <<args, onpage_results, tier, audit_results, recommended_tier,
                   specific_tasks, hour_allocation, current_date, csv_rows>>
    /\ UNCHANGED <<strategist, post_response, inputs, exit_status, monthly_plan, files>>

\* the caller constructs another strategist
NewStrategist ==
    /\ pc = "called"
    /\ strategist' \in StrategistChoices \ {strategist}
    /\ pc' = "constructed"
    /\ UNCHANGED <<args, onpage_results, tier, audit_results, recommended_tier,
                   specific_tasks, hour_allocation, plan, current_date, csv_rows>>
    /\ UNCHANGED <<first_plan, error, post_response, api_calls, log, inputs,
                   exit_status, monthly_plan, files>>

SecondCall ==
    /\ pc \in {"called", "constructed"}
    /\ \E outcome \in Outcomes :
          \E call \in {CallResult(outcome)} :
              /\ IF IsRaised(call.result)
                 THEN /\ error' = call.result.raised
                      /\ pc' = "failed"
                      /\ plan' = plan
                 ELSE /\ plan' = call.result
                      /\ pc' = "called_twice"
                      /\ error' = error
              /\ api_calls' = api_calls + call.calls
              /\ log' = log \o call.printed
    /\ UNCHANGED <<args, onpage_results, tier, audit_results, recommended_tier,
                   specific_tasks, hour_allocation, current_date, csv_rows>>
    /\ UNCHANGED <<strategist, first_plan, post_response, inputs, exit_status,
                   monthly_plan, files>>

NextCall == FirstCall \/ NewStrategist \/ SecondCall

SpecCall == InitCall /\ [][NextCall]_vars

\* the plan without its generation timestamp
WithoutTimestamp(p) == [p EXCEPT !.client_info.plan_generated = ""]

C17_InvalidTierListsKeys ==
    (pc # "start" /\ args.tier \notin TierKeys \cup {"None", ""}) =>
        /\ pc = "failed"
        /\ plan = NoPlan
        /\ api_calls <= 1
        /\ \A key \in TierKeys : IndexOf(error.message, key, 1) > 0

-----------------------------------------------------------------------------
(* Specification SpecAudit: run_onpage_audit on clients constructed with   *)
(* and without credentials, for each answer of the network, followed by    *)
(* _parse_audit_results as analyze_website_real calls it.                  *)

Environs ==
    { NoEnviron,
      [DATAFORSEO_USERNAME |-> "envlogin", DATAFORSEO_PASSWORD |-> ""],
      [DATAFORSEO_USERNAME |-> "envlogin", DATAFORSEO_PASSWORD |-> "envsecret"] }

AuditUrls ==
    PlanUrlChoices \cup {"http://shop.example.org", "https://www.example.com"}

AuditOutcomes ==
    Outcomes \cup
    { [kind |-> "raise", message |-> "HTTP Error 401: Unauthorized"],
      [kind |-> "raise", message |-> "Expecting value: line 1 column 1 (char 0)"],
      [kind |-> "json", body |-> [tasks |-> <<>>]],
      [kind |-> "json", body |-> [status_code |-> 20000, tasks |-> <<>>]] }

InitAudit ==
    /\ pc = "start"
    /\ \E u \in AuditUrls : args = [url |-> u, tier |-> "None"]
    /\ \E username \in {"", "login"}, password \in {"", "secret"}, environ \in Environs :
          strategist = EnhancedSEOStrategist(NoDate, username, password, environ)
    /\ onpage_results = NoResponse
    /\ tier = "none"
    /\ audit_results = NoAudit
    /\ recommended_tier = "none"
    /\ specific_tasks = NoTasks
    /\ hour_allocation = NoAllocation
    /\ plan = NoPlan
    /\ current_date = NoDate
    /\ csv_rows = <<>>
    /\ first_plan = NoPlan
    /\ error = NoError
    /\ post_response = NoResponse
    /\ api_calls = 0
    /\ log = <<>>
    /\ inputs = NoInputs
    /\ exit_status = "None"
    /\ monthly_plan = NoMonthlyPlan
    /\ files = <<>>

\* onpage_results = self.dataforseo.run_onpage_audit(domain)
RunOnpageAudit ==
    /\ pc = "start"
    /\ \E outcome \in AuditOutcomes :
          LET audit == run_onpage_audit(strategist.dataforseo,
                                        client_domain_of(args.url), outcome)
          IN  /\ IF IsRaised(audit)
                 THEN /\ error' = audit.raised
                      /\ pc' = "failed"
                      /\ onpage_results' = onpage_results
                 ELSE /\ onpage_results' = audit.result
                      /\ pc' = "returned"
                      /\ error' = error
              /\ post_response' = audit.post_response
              /\ api_calls' = api_calls + audit.calls
              /\ log' = log \o audit.printed
    /\ UNCHANGED <<args, tier, audit_results, recommended_tier, specific_tasks,
                   hour_allocation, plan, current_date, csv_rows>>
    /\ UNCHANGED <<strategist, first_plan, inputs, exit_status, monthly_plan, files>>

\* audit_summary = self._parse_audit_results(onpage_results)
ParseAuditResults ==
    /\ pc = "returned"
    /\ audit_results' = parse_audit_results(onpage_results)
    /\ recommended_tier' = recommend_tier_from_audit(audit_results')
    /\ pc' = "parsed"
    /\ UNCHANGED <<args, onpage_results, tier, specific_tasks, hour_allocation,
                   plan, current_date, csv_rows>>
    /\ UNCHANGED <<strategist, first_plan, error, post_response, api_calls, log,
                   inputs, exit_status, monthly_plan, files>>

NextAudit == RunOnpageAudit \/ ParseAuditResults

SpecAudit == InitAudit /\ [][NextAudit]_vars

\* the schema of the fixture: status_code 20000, one task, one result, one
\* item with a checks map and total_pages
HasFixtureSchema(response) ==
    /\ DOMAIN response = {"status_code", "tasks"}
    /\ response.status_code = 20000
    /\ Len(response.tasks) = 1
    /\ Len(response.tasks[1].result) = 1
    /\ Len(response.tasks[1].result[1].items) = 1
    /\ DOMAIN response.tasks[1].result[1].items[1] =
          {"checks", "total_pages", "pages_by_status_code"}
    /\ DOMAIN response.tasks[1].result[1].items[1].checks = DOMAIN DemoChecks
    /\ response.tasks[1].result[1].items[1].total_pages = 147

-----------------------------------------------------------------------------
(* Specification SpecMonthly: _create_data_driven_monthly_plan applied to  *)
(* buckets of 0, 1, 5 and MaxBucket tasks and to up to MaxOngoing ongoing  *)
(* tasks, each with or without the recurring flag.                         *)

MaxBucket == 6           \* most tasks in one project bucket
MaxOngoing == 5          \* most ongoing tasks

BucketLengths == {0, 1, 5, MaxBucket}

\* the tasks of a bucket, told apart by their texts
TasksOfBucket(b, n) ==
    [i \in 1..n |-> [task |-> b \o " task " \o ToString(i), recurring |-> FALSE]]

OngoingOfFlags(flags) ==
    [i \in 1..Len(flags) |->
        [task |-> "ongoing task " \o ToString(i), recurring |-> flags[i]]]

InitMonthly ==
    /\ pc = "start"
    /\ \/ \E n \in [ProjectBuckets -> BucketLengths],
             flags \in BoundedSeq(BOOLEAN, MaxOngoing) :
             specific_tasks =
                [b \in BucketNames |->
                    IF b = "ongoing" THEN OngoingOfFlags(flags)
                    ELSE TasksOfBucket(b, n[b])]
       \/ specific_tasks = [short_term |-> TasksOfBucket("short_term", 1)]
    /\ args = NoArgs
    /\ onpage_results = NoResponse
    /\ tier = "none"
    /\ audit_results = NoAudit
    /\ recommended_tier = "none"
    /\ hour_allocation = NoAllocation
    /\ plan = NoPlan
    /\ current_date = NoDate
    /\ csv_rows = <<>>
    /\ strategist = EnhancedSEOStrategist(NoDate, "", "", NoEnviron)
    /\ first_plan = NoPlan
    /\ error = NoError
    /\ post_response = NoResponse
    /\ api_calls = 0
    /\ log = <<>>
    /\ inputs = NoInputs
    /\ exit_status = "None"
    /\ monthly_plan = NoMonthlyPlan
    /\ files = <<>>

CreateMonthlyPlan ==
    /\ pc = "start"
    /\ monthly_plan' = create_data_driven_monthly_plan(specific_tasks)
    /\ pc' = "done"
    /\ UNCHANGED <<args, onpage_results, tier, audit_results, recommended_tier,
                   specific_tasks, hour_allocation, plan, current_date, csv_rows>>
    /\ UNCHANGED <<strategist, first_plan, error, post_response, api_calls,
                   log, inputs, exit_status, files>>

NextMonthly == CreateMonthlyPlan

SpecMonthly == InitMonthly /\ [][NextMonthly]_vars

\* the bucket whose tasks month m lists
BucketOfMonth(m) ==
    IF m <= 2 THEN "immediate_fixes"
    ELSE IF m <= 4 THEN "short_term"
    ELSE IF m <= 8 THEN "medium_term"
    ELSE "long_term"

TextsIn(list) == { list[i].task : i \in DOMAIN list }

ListedIn(m) ==
    { monthly_plan[MonthKey(m)].primary_tasks[i] :
         i \in DOMAIN monthly_plan[MonthKey(m)].primary_tasks }

\* C20: the monthly plan has exactly the 12 entries month_1..month_12; the
\* tasks a month lists are tasks of its bucket (months 1-2 immediate_fixes,
\* 3-4 short_term, 5-8 medium_term, 9-12 long_term) or ongoing tasks, and
\* every month lists every ongoing task.
C20_EveryMonthHasOngoing ==
    pc = "done" =>
        /\ DOMAIN monthly_plan = { MonthKey(m) : m \in 1..12 }
        /\ \A m \in 1..12 :
              /\ ListedIn(m) \subseteq
                    TextsIn(Get(specific_tasks, BucketOfMonth(m), <<>>))
                    \cup TextsIn(Get(specific_tasks, "ongoing", <<>>))
              /\ TextsIn(Get(specific_tasks, "ongoing", <<>>)) \subseteq ListedIn(m)

\* the places of the ongoing tasks whose recurring flag is set
RecurringPlaces ==
    { k \in DOMAIN Get(specific_tasks, "ongoing", <<>>) :
         specific_tasks.ongoing[k].recurring }

\* the place of the j-th of them
RecurringPlace(j) ==
    CHOOSE k \in RecurringPlaces :
       Cardinality({ x \in RecurringPlaces : x < k }) = j - 1

\* C20 as amended: 12 entries month_1..month_12; each month lists, in order,
\* the first 5 tasks of its bucket and then the first 3 ongoing tasks whose
\* recurring flag is set, and nothing else; task_count is their number.
C20_MonthsByBucketFirstThreeRecurring ==
    pc = "done" =>
        /\ DOMAIN monthly_plan = { MonthKey(m) : m \in 1..12 }
        /\ \A m \in 1..12 :
              LET entry == monthly_plan[MonthKey(m)]
                  bucket == Get(specific_tasks, BucketOfMonth(m), <<>>)
                  from_bucket == Min(Len(bucket), 5)
                  from_ongoing == Min(Cardinality(RecurringPlaces), 3)
              IN  /\ Len(entry.primary_tasks) = from_bucket + from_ongoing
                  /\ entry.task_count = from_bucket + from_ongoing
                  /\ \A i \in 1..from_bucket :
                        entry.primary_tasks[i] = bucket[i].task
                  /\ \A j \in 1..from_ongoing :
                        entry.primary_tasks[from_bucket + j] =
                           specific_tasks.ongoing[RecurringPlace(j)].task

\* buckets of more than 5 tasks, 4 recurring ongoing tasks after one that
\* is not recurring: month 1 lists 8 tasks, the last of them ongoing task 4
C20_Witness ==
    /\ pc = "done"
    /\ Len(specific_tasks.immediate_fixes) = MaxBucket
    /\ Len(specific_tasks.long_term) = 1
    /\ Len(specific_tasks.ongoing) = 5
    /\ ~specific_tasks.ongoing[1].recurring
    /\ Cardinality(RecurringPlaces) = 4
    /\ Len(monthly_plan.month_1.primary_tasks) = 8
    /\ monthly_plan.month_1.primary_tasks[8] = "ongoing task 4"
    /\ Len(monthly_plan.month_12.primary_tasks) = 4

\* the number a month's estimated_completion displays
PercentOf(entry) ==
    CHOOSE n \in 0..100 :
       entry.estimated_completion = ToString(n) \o "% of identified issues"

\* C29: in every month of the calendar, task_count is the number of entries
\* of primary_tasks and is at most 8, so the truncation to 8 removes no
\* task; the percentage displayed is min(task_count * 15, 85), and a month
\* with more tasks never displays a smaller percentage.
C29_TaskCountAndPercent ==
    pc = "done" =>
        /\ \A m \in 1..12 :
              LET entry == monthly_plan[MonthKey(m)]
              IN  /\ entry.task_count = Len(entry.primary_tasks)
                  /\ entry.task_count <= 8
                  /\ \E n \in 0..100 :
                        entry.estimated_completion =
                           ToString(n) \o "% of identified issues"
        /\ \E percent \in {[m \in 1..12 |-> PercentOf(monthly_plan[MonthKey(m)])]} :
              /\ \A m \in 1..12 :
                    percent[m] =
                       (IF monthly_plan[MonthKey(m)].task_count * 15 < 85
                        THEN monthly_plan[MonthKey(m)].task_count * 15
                        ELSE 85)
              /\ \A m1 \in 1..12, m2 \in 1..12 :
                    monthly_plan[MonthKey(m1)].task_count
                       <= monthly_plan[MonthKey(m2)].task_count
                    => percent[m1] <= percent[m2]

\* months of 8 tasks (85%), of 6 tasks (85%, capped) and of 3 tasks (45%)
C29_Witness ==
    /\ pc = "done"
    /\ "long_term" \in DOMAIN specific_tasks
    /\ Cardinality(RecurringPlaces) = 5
    /\ monthly_plan.month_1.task_count = 8
    /\ monthly_plan.month_1.estimated_completion = "85% of identified issues"
    /\ monthly_plan.month_3.task_count = 4
    /\ monthly_plan.month_3.estimated_completion = "60% of identified issues"
    /\ monthly_plan.month_12.task_count = 3
    /\ monthly_plan.month_12.estimated_completion = "45% of identified issues"

-----------------------------------------------------------------------------
(* main of seo_strategist.py: the argument parser *)

StartsWith(s, prefix) ==
    Len(s) >= Len(prefix) /\ SubSeq(s, 1, Len(prefix)) = prefix

\* the options add_argument defines, and the help option of ArgumentParser
ValueOptions ==
    {"--tier", "--dataforseo-username", "--dataforseo-password", "--output"}

FlagOptions == {"--clickup-csv", "--demo-mode"}

HelpOptions == {"-h", "--help"}

TierChoices == {"starter", "business", "pro"}

\* the options a token of the command line stands for: the option itself, or
\* the long options it abbreviates
OptionMatches(token) ==
    IF token \in ValueOptions \cup FlagOptions \cup HelpOptions THEN {token}
    ELSE IF StartsWith(token, "--")
    THEN { o \in ValueOptions \cup FlagOptions \cup {"--help"} :
             StartsWith(o, token) }
    ELSE {}

\* the attribute of the namespace an option sets
Dest(option) ==
    CASE option = "--tier" -> "tier"
      [] option = "--dataforseo-username" -> "dataforseo_username"
      [] option = "--dataforseo-password" -> "dataforseo_password"
      [] option = "--output" -> "output"
      [] option = "--clickup-csv" -> "clickup_csv"
      [] option = "--demo-mode" -> "demo_mode"

\* the namespace before any argument is read; a string option that was not
\* given is "" (None), the tier "None"
EmptyNamespace ==
    [url |-> "None", tier |-> "None", dataforseo_username |-> "",
     dataforseo_password |-> "", output |-> "", clickup_csv |-> FALSE,
     demo_mode |-> FALSE]

\* parser.exit(status): the process ends with this status
SystemExit(status) == [exit |-> status]

IsExit(result) == "exit" \in DOMAIN result

\* the arguments are read from left to right; unrecognized ones are reported
\* once all are read
RECURSIVE ParseTokens(_, _, _)
ParseTokens(tokens, namespace, unrecognized) ==
    IF tokens = <<>>
    THEN IF namespace.url = "None" \/ unrecognized THEN SystemExit("2")
         ELSE namespace
    ELSE LET token == Head(tokens)
         IN  IF StartsWith(token, "-")
             THEN LET matches == OptionMatches(token)
                  IN  IF matches = {}
                      THEN ParseTokens(Tail(tokens), namespace, TRUE)
                      ELSE IF Cardinality(matches) > 1 THEN SystemExit("2")
                      ELSE LET option == CHOOSE o \in matches : TRUE
                           IN  IF option \in HelpOptions THEN SystemExit("0")
                               ELSE IF option \in FlagOptions
                               THEN ParseTokens(Tail(tokens),
                                       [namespace EXCEPT ![Dest(option)] = TRUE],
                                       unrecognized)
                               ELSE IF Len(tokens) < 2
                                       \/ StartsWith(tokens[2], "-")
                               THEN SystemExit("2")
                               ELSE IF option = "--tier"
                                       /\ tokens[2] \notin TierChoices
                               THEN SystemExit("2")
                               ELSE ParseTokens(Tail(Tail(tokens)),
                                       [namespace EXCEPT
                                          ![Dest(option)] = tokens[2]],
                                       unrecognized)
             ELSE IF namespace.url = "None"
                  THEN ParseTokens(Tail(tokens),
                                   [namespace EXCEPT !.url = token], unrecognized)
                  ELSE ParseTokens(Tail(tokens), namespace, TRUE)

\* parser.parse_args(): the namespace, or the exit of the process
parse_args(argv) == ParseTokens(argv, EmptyNamespace, FALSE)

-----------------------------------------------------------------------------
(* main of seo_strategist.py: the calls and the files they write.  A call   *)
(* is given references to the strategist, the audit data and the plan; its *)
(* result records the value returned, the file written and these objects   *)
(* as the call leaves them.                                                *)

\* datetime.now().strftime("%Y%m%d")
Strftime_Ymd(date) == ToString(date.year) \o Pad2(date.month) \o Pad2(date.day)

\* mutant: --tier is ignored, the recommended tier is always used
final_tier_recommended(args_tier, audit_recommended_tier) ==
    audit_recommended_tier

\* final_tier of main
final_tier(args_tier, audit_recommended_tier) ==
    IF args_tier # "None" THEN args_tier ELSE audit_recommended_tier

generate_data_driven_plan_call(self, url, tier_key, audit_data) ==
    [returned |-> generate_data_driven_plan(self, url, tier_key, audit_data),
     self |-> self,
     audit_data |-> audit_data]

\* mutant: the name of the file is recorded in the plan
export_enhanced_plan_stamping(self, the_plan, filename, now) ==
    LET name == IF filename = ""
                THEN client_domain_of(the_plan["client_info"]["url"])
                        \o "_audit_based_seo_plan_" \o Strftime_Ymd(now) \o ".json"
                ELSE filename
    IN  [returned |-> name,
         written |-> [name |-> name, kind |-> "json", content |-> the_plan],
         self |-> self,
         plan |-> [exported_to |-> name] @@ the_plan]

\* export_enhanced_plan: json.dump writes the plan as it is
export_enhanced_plan(self, the_plan, filename, now) ==
    LET name == IF filename = ""
                THEN client_domain_of(the_plan["client_info"]["url"])
                        \o "_audit_based_seo_plan_" \o Strftime_Ymd(now) \o ".json"
                ELSE filename
    IN  [returned |-> name,
         written |-> [name |-> name, kind |-> "json", content |-> the_plan],
         self |-> self,
         plan |-> the_plan]

\* export_clickup_csv with its file: the rows are written under the default
\* name when no filename is given
export_clickup_csv_call(self, the_plan, filename, now) ==
    LET name == IF filename = ""
                THEN client_domain_of(the_plan["client_info"]["url"])
                        \o "_seo_tasks_clickup_" \o Strftime_Ymd(now) \o ".csv"
                ELSE filename
    IN  [returned |-> name,
         written |-> [name |-> name, kind |-> "csv",
                      content |-> export_clickup_csv(the_plan, now)],
         self |-> self,
         plan |-> the_plan]

-----------------------------------------------------------------------------
(* Specification SpecMain: one run of main of seo_strategist.py, from the  *)
(* command line to the files, for command lines with and without --tier,  *)
(* --output, --clickup-csv and credentials, and for command lines the      *)
(* parser refuses.                                                         *)

MainUrls == {"https://www.example.com/services", "http://shop.example.org"}

MainDates ==
    { [year |-> 2026, month |-> 11, day |-> 6],
      [year |-> 2027, month |-> 12, day |-> 31] }

ArgvChoices ==
    { <<u>> \o t \o o \o c \o k :
        u \in MainUrls,
        t \in { <<>>, << "--tier", "starter" >>, << "--tier", "pro" >> },
        o \in { <<>>, << "--output", "plan.json" >>, << "--output", "" >> },
        c \in { <<>>, << "--dataforseo-username", "login",
                        "--dataforseo-password", "secret" >> },
        k \in { <<>>, << "--clickup-csv" >> } }
    \cup { <<>>, << "--help" >>,
           << "https://example.com", "--tier", "enterprise" >>,
           << "https://example.com", "--clickup", "--demo", "--tie", "business" >>,
           << "https://example.com", "--business-size", "growing",
              "--competition", "medium", "--budget", "1000_1500",
              "--goals", "growth" >> }

InitMain ==
    /\ pc = "start"
    /\ current_date \in MainDates
    /\ args = NoArgs
    /\ onpage_results = NoResponse
    /\ tier = "none"
    /\ audit_results = NoAudit
    /\ recommended_tier = "none"
    /\ specific_tasks = NoTasks
    /\ hour_allocation = NoAllocation
    /\ plan = NoPlan
    /\ csv_rows = <<>>
    /\ strategist = EnhancedSEOStrategist(NoDate, "", "", NoEnviron)
    /\ first_plan = NoPlan
    /\ error = NoError
    /\ post_response = NoResponse
    /\ api_calls = 0
    /\ log = <<>>
    /\ inputs = NoInputs
    /\ exit_status = "None"
    /\ monthly_plan = NoMonthlyPlan
    /\ files = <<>>

\* args = parser.parse_args()
ParseArgs ==
    /\ pc = "start"
    /\ \E argv \in ArgvChoices :
          \E parsed \in {parse_args(argv)} :
             IF IsExit(parsed)
             THEN /\ exit_status' = parsed.exit
                  /\ pc' = "exited"
                  /\ args' = args
             ELSE /\ args' = parsed
                  /\ pc' = "parsed"
                  /\ exit_status' = exit_status
    /\ UNCHANGED <<onpage_results, tier, audit_results, recommended_tier,
                   specific_tasks, hour_allocation, plan, current_date, csv_rows>>
    /\ UNCHANGED <<strategist, first_plan, error, post_response, api_calls,
                   log, inputs, monthly_plan, files>>

\* strategist = EnhancedSEOStrategist(...);
\* audit_data = strategist.analyze_website_real(args.url)
AnalyzeWebsiteReal ==
    /\ pc = "parsed"
    /\ \E environ \in Environs, outcome \in AuditOutcomes :
          /\ strategist' = EnhancedSEOStrategist(current_date,
                              args.dataforseo_username,
                              args.dataforseo_password, environ)
          /\ \E audit \in {run_onpage_audit(strategist'.dataforseo,
                                            client_domain_of(args.url), outcome)} :
                /\ post_response' = audit.post_response
                /\ api_calls' = api_calls + audit.calls
                /\ log' = log \o audit.printed
                /\ IF IsRaised(audit)
                   THEN /\ error' = audit.raised
                        /\ exit_status' = "1"
                        /\ pc' = "failed"
                        /\ UNCHANGED <<onpage_results, audit_results,
                                       recommended_tier>>
                   ELSE \E analysis \in {analyze_website_real(args.url, audit.result)} :
                           /\ onpage_results' = audit.result
                           /\ audit_results' = analysis.audit_results
                           /\ recommended_tier' = analysis.recommended_tier
                           /\ pc' = "audited"
                           /\ UNCHANGED <<error, exit_status>>
    /\ UNCHANGED <<args, tier, specific_tasks, hour_allocation, plan,
                   current_date, csv_rows>>
    /\ UNCHANGED <<first_plan, inputs, monthly_plan, files>>

\* plan = strategist.generate_data_driven_plan(args.url, final_tier, audit_data)
GenerateDataDrivenPlan ==
    /\ pc = "audited"
    /\ tier' = final_tier(args.tier, recommended_tier)
    /\ \E call \in {generate_data_driven_plan_call(strategist, args.url, tier',
                       [audit_results |-> audit_results,
                        recommended_tier |-> recommended_tier])} :
          /\ plan' = call.returned
          /\ specific_tasks' = call.returned.audit_based_tasks
          /\ hour_allocation' = call.returned.hour_allocation
          /\ strategist' = call.self
          /\ audit_results' = call.audit_data.audit_results
          /\ recommended_tier' = call.audit_data.recommended_tier
    /\ pc' = "planned"
    /\ UNCHANGED <<args, onpage_results, current_date, csv_rows>>
    /\ UNCHANGED <<first_plan, error, post_response, api_calls,
                   log, inputs, exit_status, monthly_plan, files>>

\* filename = strategist.export_enhanced_plan(plan, args.output)
ExportEnhancedPlan ==
    /\ pc = "planned"
    /\ \E call \in {export_enhanced_plan(strategist, plan, args.output,
                                         current_date)} :
          /\ files' = Append(files, call.written)
          /\ log' = Append(log, "Enhanced SEO plan exported to: " \o call.returned)
          /\ strategist' = call.self
          /\ plan' = call.plan
    /\ pc' = IF args.clickup_csv THEN "clickup_csv" ELSE "summary"
    /\ UNCHANGED <<args, onpage_results, tier, audit_results, recommended_tier,
                   specific_tasks, hour_allocation, current_date, csv_rows>>
    /\ UNCHANGED <<first_plan, error, post_response, api_calls,
                   inputs, exit_status, monthly_plan>>

\* if args.clickup_csv: clickup_filename = strategist.export_clickup_csv(plan)
ExportClickupCsvFile ==
    /\ pc = "clickup_csv"
    /\ \E call \in {export_clickup_csv_call(strategist, plan, "", current_date)} :
          /\ files' = Append(files, call.written)
          /\ csv_rows' = call.written.content
          /\ log' = Append(log, "ClickUp CSV exported to: " \o call.returned)
          /\ strategist' = call.self
          /\ plan' = call.plan
    /\ pc' = "summary"
    /\ UNCHANGED <<args, onpage_results, tier, audit_results, recommended_tier,
                   specific_tasks, hour_allocation, current_date>>
    /\ UNCHANGED <<first_plan, error, post_response, api_calls,
                   inputs, exit_status, monthly_plan>>

\* the summary is printed and main returns
PrintSummary ==
    /\ pc = "summary"
    /\ log' = log \o << "Client: " \o plan.client_info.url,
                        "Tier: " \o plan.client_info.tier >>
    /\ exit_status' = "0"
    /\ pc' = "done"
    /\ UNCHANGED <<args, onpage_results, tier, audit_results, recommended_tier,
                   specific_tasks, hour_allocation, plan, current_date, csv_rows>>
    /\ UNCHANGED <<strategist, first_plan, error, post_response, api_calls,
                   inputs, monthly_plan, files>>

NextMain ==
    \/ ParseArgs
    \/ AnalyzeWebsiteReal
    \/ GenerateDataDrivenPlan
    \/ ExportEnhancedPlan
    \/ ExportClickupCsvFile
    \/ PrintSummary

SpecMain == InitMain /\ [][NextMain]_vars

\* the kinds of the files written so far, in order
KindsWritten == [i \in DOMAIN files |-> files[i].kind]

\* C21: in every run of main, the plan is built for the --tier value when
\* one is given and for the audit-recommended tier otherwise; the JSON plan
\* file is written at most once and before any CSV; a run that ends
\* successfully has written the JSON file exactly once, and the CSV file if
\* and only if --clickup-csv was given, so one or two files.
C21_TierAndFiles ==
    /\ KindsWritten \in { <<>>, << "json" >>, << "json", "csv" >> }
    /\ pc \in {"start", "exited", "parsed", "failed", "audited", "planned"}
          => files = <<>>
    /\ pc \in {"planned", "clickup_csv", "summary", "done"} =>
          /\ tier = (IF args.tier \in TierChoices THEN args.tier
                     ELSE recommended_tier)
          /\ plan.client_info.tier = service_tiers[tier].name
    /\ pc \in {"clickup_csv", "summary", "done"} =>
          /\ files[1].content = plan
          /\ files[1].name =
                (IF args.output # "" THEN args.output
                 ELSE client_domain_of(args.url) \o "_audit_based_seo_plan_"
                         \o Strftime_Ymd(current_date) \o ".json")
    /\ pc = "clickup_csv" => KindsWritten = << "json" >> /\ args.clickup_csv
    /\ pc \in {"summary", "done"} =>
          /\ KindsWritten =
                (IF args.clickup_csv THEN << "json", "csv" >> ELSE << "json" >>)
          /\ Len(files) \in {1, 2}
    /\ pc = "done" => exit_status = "0"

\* a run with --tier pro against the recommendation business and with
\* --clickup-csv, which wrote the JSON file and then the CSV file
C21_Witness ==
    /\ pc = "done"
    /\ args.tier = "pro"
    /\ recommended_tier = "business"
    /\ args.clickup_csv
    /\ tier = "pro"
    /\ KindsWritten = << "json", "csv" >>
    /\ files[1].name = "plan.json"
    /\ files[2].name = "example.com_seo_tasks_clickup_20261106.csv"

-----------------------------------------------------------------------------
(* Specification SpecApi: a caller holds a strategist and audit data and   *)
(* calls generate_data_driven_plan, export_enhanced_plan and               *)
(* export_clickup_csv in any order, any number of times, until MaxFiles    *)
(* files are written.                                                      *)

MaxFiles == 2            \* most files written by the calls

ApiAudits == CallAudits \ {EmptyDict}

InitApi ==
    /\ pc = "ready"
    /\ current_date \in MainDates
    /\ strategist = EnhancedSEOStrategist(current_date, "", "", NoEnviron)
    /\ \E u \in UrlChoices, a \in ApiAudits :
          args = [url |-> u, tier |-> "None", audit_data |-> a]
    /\ onpage_results = NoResponse
    /\ tier = "none"
    /\ audit_results = NoAudit
    /\ recommended_tier = "none"
    /\ specific_tasks = NoTasks
    /\ hour_allocation = NoAllocation
    /\ plan = NoPlan
    /\ csv_rows = <<>>
    /\ first_plan = NoPlan
    /\ error = NoError
    /\ post_response = NoResponse
    /\ api_calls = 0
    /\ log = <<>>
    /\ inputs = NoInputs
    /\ exit_status = "None"
    /\ monthly_plan = NoMonthlyPlan
    /\ files = <<>>

\* plan = strategist.generate_data_driven_plan(url, tier, audit_data)
CallGenerate ==
    /\ pc = "ready"
    /\ \E t \in TierKeys :
          \E call \in {generate_data_driven_plan_call(strategist, args.url, t,
                                                      args.audit_data)} :
             /\ tier' = t
             /\ plan' = call.returned
             /\ specific_tasks' = call.returned.audit_based_tasks
             /\ hour_allocation' = call.returned.hour_allocation
             /\ strategist' = call.self
             /\ args' = [args EXCEPT !.tier = t, !.audit_data = call.audit_data]
    /\ UNCHANGED <<pc, onpage_results, audit_results, recommended_tier,
                   current_date, csv_rows>>
    /\ UNCHANGED <<first_plan, error, post_response, api_calls,
                   log, inputs, exit_status, monthly_plan, files>>

\* strategist.export_enhanced_plan(plan, filename)
CallExportEnhancedPlan ==
    /\ pc = "ready"
    /\ plan # NoPlan
    /\ Len(files) < MaxFiles
    /\ \E filename \in {"", "plan.json"} :
          \E call \in {export_enhanced_plan(strategist, plan, filename,
                                            current_date)} :
             /\ files' = Append(files, call.written)
             /\ strategist' = call.self
             /\ plan' = call.plan
    /\ UNCHANGED <<pc, args, onpage_results, tier, audit_results,
                   recommended_tier, specific_tasks, hour_allocation,
                   current_date, csv_rows>>
    /\ UNCHANGED <<first_plan, error, post_response, api_calls,
                   log, inputs, exit_status, monthly_plan>>

\* strategist.export_clickup_csv(plan, filename)
CallExportClickupCsv ==
    /\ pc = "ready"
    /\ plan # NoPlan
    /\ Len(files) < MaxFiles
    /\ \E filename \in {"", "tasks.csv"} :
          \E call \in {export_clickup_csv_call(strategist, plan, filename,
                                               current_date)} :
             /\ files' = Append(files, call.written)
             /\ csv_rows' = call.written.content
             /\ strategist' = call.self
             /\ plan' = call.plan
    /\ UNCHANGED <<pc, args, onpage_results, tier, audit_results,
                   recommended_tier, specific_tasks, hour_allocation,
                   current_date>>
    /\ UNCHANGED <<first_plan, error, post_response, api_calls,
                   log, inputs, exit_status, monthly_plan>>

NextApi == CallGenerate \/ CallExportEnhancedPlan \/ CallExportClickupCsv

SpecApi == InitApi /\ [][NextApi]_vars

\* C23: every call of generate_data_driven_plan, export_enhanced_plan and
\* export_clickup_csv, after any calls before it, leaves the strategist's
\* tier catalog and the audit data passed in as they were, and every call of
\* the two exporters (a step that writes a file) leaves the plan it is given
\* as it was.
C23_Frame ==
    [][ /\ strategist'.service_tiers = strategist.service_tiers
        /\ strategist'.service_tiers = service_tiers
        /\ args'.audit_data = args.audit_data
        /\ files' # files => plan' = plan ]_vars

\* a plan was generated, exported to JSON and to CSV, and a plan for another
\* tier was generated after that
C23_Witness ==
    /\ Len(files) = 2
    /\ files[1].kind = "json"
    /\ files[2].kind = "csv"
    /\ files[1].content.client_info.tier = "Starter"
    /\ plan.client_info.tier = "Pro"
    /\ args.audit_data.audit_results.total_issues = 8

-----------------------------------------------------------------------------
(* Specification SpecInteractive: the prompts of seo_interactive.py, the    *)
(* command run_seo_planner builds from the answers, and the tier the       *)
(* planner recommends for the four business inputs on that command.  The   *)
(* planner revision that takes --business-size, --competition, --budget    *)
(* and --goals is not among the sources at hand (main of                   *)
(* seo_strategist.py defines none of these options); its recommender is    *)
(* written from the specification, section 4.1.                            *)

MaxReprompts == 1        \* most invalid answers in one session

\* the answers typed at a menu
MenuAnswers == {"1", "2", "3", "4", ""}

\* get_url returns "" while the answer is empty (the loop goes on)
get_url(answer) ==
    IF answer = "" THEN ""
    ELSE IF Prefix(answer, 7) = "http://" \/ Prefix(answer, 8) = "https://"
    THEN answer ELSE "https://" \o answer

\* each menu returns "" while the answer is not 1, 2 or 3 (the loop goes on)
get_business_size(choice) ==
    IF choice = "1" THEN "small_local"
    ELSE IF choice = "2" THEN "growing"
    ELSE IF choice = "3" THEN "established"
    ELSE ""

get_competition_level(choice) ==
    IF choice = "1" THEN "low"
    ELSE IF choice = "2" THEN "medium"
    ELSE IF choice = "3" THEN "high"
    ELSE ""

get_budget_range(choice) ==
    IF choice = "1" THEN "under_1000"
    ELSE IF choice = "2" THEN "1000_1500"
    ELSE IF choice = "3" THEN "over_1500"
    ELSE ""

\* mutant: an answer that is no menu entry is returned as it was typed
get_goals_passthrough(choice) ==
    IF choice = "1" THEN "foundation"
    ELSE IF choice = "2" THEN "growth"
    ELSE IF choice = "3" THEN "aggressive_growth"
    ELSE choice

get_goals(choice) ==
    IF choice = "1" THEN "foundation"
    ELSE IF choice = "2" THEN "growth"
    ELSE IF choice = "3" THEN "aggressive_growth"
    ELSE ""

\* mutant: the budget and the goals are passed under each other's option
planner_command_swapped(url, business_size, competition, budget, goals, output) ==
    << "python3", "seo_strategist.py", url,
       "--business-size", business_size,
       "--competition", competition,
       "--budget", goals,
       "--goals", budget >>
    \o (IF output # "" THEN << "--output", output >> ELSE <<>>)

\* cmd of run_seo_planner
planner_command(url, business_size, competition, budget, goals, output) ==
    << "python3", "seo_strategist.py", url,
       "--business-size", business_size,
       "--competition", competition,
       "--budget", budget,
       "--goals", goals >>
    \o (IF output # "" THEN << "--output", output >> ELSE <<>>)

\* ' '.join(cmd)
RECURSIVE JoinSpaces(_)
JoinSpaces(cmd) ==
    IF cmd = <<>> THEN ""
    ELSE IF Len(cmd) = 1 THEN cmd[1]
    ELSE cmd[1] \o " " \o JoinSpaces(Tail(cmd))

\* confirm_details: "True", "False", or "" while the answer is neither
\* (the loop goes on)
confirm_details(confirm) ==
    IF confirm \in {"y", "yes"} THEN "True"
    ELSE IF confirm \in {"n", "no"} THEN "False"
    ELSE ""

\* subprocess.run(cmd, check=True): the exit status of the planner, which
\* parses the arguments after the script's name; a command line the parser
\* accepts is a run of main in demo mode, which ends with status 0
planner_exit_status(cmd) ==
    LET parsed == parse_args(SubSeq(cmd, 3, Len(cmd)))
    IN  IF IsExit(parsed) THEN parsed.exit ELSE "0"

\* the value that follows an option on the command, "" when it is absent
OptionValue(cmd, option) ==
    IF \E i \in 1..(Len(cmd) - 1) : cmd[i] = option
    THEN cmd[(CHOOSE i \in 1..(Len(cmd) - 1) : cmd[i] = option) + 1]
    ELSE ""

\* the recommender by business attributes, first match wins
recommend(business_size, competition, budget, goals) ==
    IF budget = "under_1000" \/ business_size = "small_local" THEN "starter"
    ELSE IF budget = "1000_1500"
            \/ (business_size = "growing" /\ competition = "medium")
    THEN "business"
    ELSE IF budget = "over_1500" \/ competition = "high"
            \/ goals = "aggressive_growth"
    THEN "pro"
    ELSE "business"

InitInteractive ==
    /\ pc = "url"
    /\ args = [url |-> "", tier |-> "None", output |-> ""]
    /\ inputs = NoInputs
    /\ onpage_results = NoResponse
    /\ tier = "none"
    /\ audit_results = NoAudit
    /\ recommended_tier = "none"
    /\ specific_tasks = NoTasks
    /\ hour_allocation = NoAllocation
    /\ plan = NoPlan
    /\ current_date = NoDate
    /\ csv_rows = <<>>
    /\ strategist = EnhancedSEOStrategist(NoDate, "", "", NoEnviron)
    /\ first_plan = NoPlan
    /\ error = NoError
    /\ post_response = NoResponse
    /\ api_calls = 0
    /\ log = <<>>
    /\ exit_status = "None"
    /\ monthly_plan = NoMonthlyPlan
    /\ files = <<>>

\* one answer at a menu: the value is kept and the next prompt follows, or
\* the answer is refused and the menu asks again
Menu(at, field, value, next) ==
    /\ pc = at
    /\ IF value # ""
       THEN /\ inputs' = [inputs EXCEPT ![field] = value]
            /\ pc' = next
            /\ log' = log
       ELSE /\ Len(log) < MaxReprompts
            /\ log' = Append(log, "Please select 1, 2, or 3")
            /\ UNCHANGED <<inputs, pc>>
    /\ UNCHANGED <<args, onpage_results, tier, audit_results, recommended_tier,
                   specific_tasks, hour_allocation, plan, current_date, csv_rows>>
    /\ UNCHANGED <<strategist, first_plan, error, post_response, api_calls,
                   exit_status, monthly_plan, files>>

\* url = get_url()
GetUrl ==
    /\ pc = "url"
    /\ \E answer \in {"", "example.com", "http://shop.example.org"} :
          IF get_url(answer) # ""
          THEN /\ args' = [args EXCEPT !.url = get_url(answer)]
               /\ pc' = "business_size"
               /\ log' = log
          ELSE /\ Len(log) < MaxReprompts
               /\ log' = Append(log, "Please enter a valid URL")
               /\ UNCHANGED <<args, pc>>
    /\ UNCHANGED <<onpage_results, tier, audit_results, recommended_tier,
                   specific_tasks, hour_allocation, plan, current_date, csv_rows>>
    /\ UNCHANGED <<strategist, first_plan, error, post_response, api_calls,
                   inputs, exit_status, monthly_plan, files>>

GetBusinessSize ==
    \E choice \in MenuAnswers :
       Menu("business_size", "business_size", get_business_size(choice), "competition")

GetCompetitionLevel ==
    \E choice \in MenuAnswers :
       Menu("competition", "competition", get_competition_level(choice), "budget")

GetBudgetRange ==
    \E choice \in MenuAnswers :
       Menu("budget", "budget", get_budget_range(choice), "goals")

GetGoals ==
    \E choice \in MenuAnswers :
       Menu("goals", "goals", get_goals(choice), "output")

GetOutputPreference ==
    /\ pc = "output"
    /\ \E filename \in {"", "plan.json"} : args' = [args EXCEPT !.output = filename]
    /\ pc' = "confirm"
    /\ UNCHANGED <<onpage_results, tier, audit_results, recommended_tier,
                   specific_tasks, hour_allocation, plan, current_date, csv_rows>>
    /\ UNCHANGED <<strategist, first_plan, error, post_response, api_calls,
                   log, inputs, exit_status, monthly_plan, files>>

ConfirmDetails ==
    /\ pc = "confirm"
    /\ \E confirm \in {"y", "yes", "n", "no", "maybe", ""} :
          IF confirm_details(confirm) = ""
          THEN /\ Len(log) < MaxReprompts
               /\ log' = Append(log, "Please enter 'y' or 'n'")
               /\ pc' = pc
          ELSE /\ pc' = IF confirm_details(confirm) = "True"
                        THEN "confirmed" ELSE "cancelled"
               /\ log' = IF confirm_details(confirm) = "True" THEN log
                         ELSE Append(log, "Plan generation cancelled.")
    /\ UNCHANGED <<args, onpage_results, tier, audit_results, recommended_tier,
                   specific_tasks, hour_allocation, plan, current_date, csv_rows>>
    /\ UNCHANGED <<strategist, first_plan, error, post_response, api_calls,
                   inputs, exit_status, monthly_plan, files>>

\* success = run_seo_planner(...) and the lines main prints after it.  The
\* command is printed and run.  exit_status is the status the planner at
\* hand ends with for the command; tier is the tier the recommender of the
\* specification gives for the business inputs on the command.  When python3
\* is not found (FileNotFoundError), nothing runs.
RunSeoPlanner ==
    /\ pc = "confirmed"
    /\ \E found \in BOOLEAN :
          \E cmd \in {planner_command(args.url, inputs.business_size,
                                     inputs.competition, inputs.budget,
                                     inputs.goals, args.output)} :
             IF found
             THEN /\ exit_status' = planner_exit_status(cmd)
                  /\ log' = log \o << "Command: " \o JoinSpaces(cmd),
                                      IF exit_status' = "0"
                                      THEN "SEO plan generation complete!"
                                      ELSE "Plan generation failed." >>
                  /\ tier' = recommend(OptionValue(cmd, "--business-size"),
                                       OptionValue(cmd, "--competition"),
                                       OptionValue(cmd, "--budget"),
                                       OptionValue(cmd, "--goals"))
                  /\ pc' = "done"
             ELSE /\ log' = log \o << "Command: " \o JoinSpaces(cmd),
                                      "Could not find seo_strategist.py",
                                      "Plan generation failed." >>
                  /\ pc' = "not_started"
                  /\ UNCHANGED <<exit_status, tier>>
    /\ UNCHANGED <<args, onpage_results, audit_results, recommended_tier,
                   specific_tasks, hour_allocation, plan, current_date, csv_rows>>
    /\ UNCHANGED <<strategist, first_plan, error, post_response, api_calls,
                   inputs, monthly_plan, files>>

NextInteractive ==
    \/ GetUrl
    \/ GetBusinessSize
    \/ GetCompetitionLevel
    \/ GetBudgetRange
    \/ GetGoals
    \/ GetOutputPreference
    \/ ConfirmDetails
    \/ RunSeoPlanner

SpecInteractive == InitInteractive /\ [][NextInteractive]_vars

MenuValues ==
    [business_size |-> {"small_local", "growing", "established"},
     competition |-> {"low", "medium", "high"},
     budget |-> {"under_1000", "1000_1500", "over_1500"},
     goals |-> {"foundation", "growth", "aggressive_growth"}]

\* the command the session builds from the answers it holds
SessionCommand ==
    planner_command(args.url, inputs.business_size, inputs.competition,
                    inputs.budget, inputs.goals, args.output)

\* run_seo_planner has printed and run its command
Launched == \E i \in DOMAIN log : StartsWith(log[i], "Command: ")

C27_CommandAccepted ==
    pc = "done" =>
        /\ \A i \in DOMAIN SessionCommand :
              StartsWith(SessionCommand[i], "--")
                 => OptionMatches(SessionCommand[i]) # {}
        /\ ~IsExit(parse_args(SubSeq(SessionCommand, 3, Len(SessionCommand))))
        /\ exit_status = "0"
        /\ log[Len(log)] = "SEO plan generation complete!"

=============================================================================
